---- MODULE Spec2Model ----
(***************************************************************************)
(* The retention-ranked agent memory of mythologizer_postgres: the table   *)
(* agent_myths (myth_id, agent_id, position, retention), the insert with   *)
(* eviction and reordering (insert_agent_myth_safe), the bulk retention    *)
(* update (update_retentions_and_reorder) and the manual reindex           *)
(* (recalculate_agent_myth_positions_by_retention).                        *)
(*                                                                         *)
(* Retentions are floats in the program; only their order and the sign     *)
(* test "retention <= 0" are used, so they are modelled by small integers. *)
(* A transaction is modelled by its effect on the committed table at its   *)
(* commit; a rollback leaves the committed table alone.                    *)
(*                                                                         *)
(* Spec     one caller; insert, bulk update and reindex call by call.      *)
(* SpecConc two callers of insert_agent_myth_safe; an attempt is the lock, *)
(*          the checks and the rest up to the commit.                      *)
(* SpecRaw  one caller that also writes rows with insert_agent_myth, at    *)
(*          positions of its choice.                                       *)
(* SpecTx   two callers, one call each, statement by statement under READ  *)
(*          COMMITTED: row locks, waits and the deadlock error.            *)
(*                                                                         *)
(* The tables myths, events and epoch are state as well; the specifications*)
(* above leave them alone.  One specification for each further operation:  *)
(* SpecTrim       a change of agents.memory_size and its trigger.          *)
(* SpecFill       inserts into a memory that is not full.                  *)
(* SpecRetention  update_agent_myth_retention beside the bulk update.      *)
(* SpecRead       get_myth_ids_and_retention_from_agents_memory.           *)
(* SpecCascade    DELETE of a myth or of an agent, ON DELETE CASCADE.      *)
(* SpecEvents     two callers of get_next_event and set_event_triggered;   *)
(*                SpecEventsFair adds weak fairness of their steps.        *)
(* SpecEpoch      two callers of increment_epoch and get_current_epoch.    *)
(* SpecSingle     update_agent_myth_retention and                          *)
(*                update_myth_with_retention beside the insert.            *)
(* SpecNeighbour  insert, bulk update and reindex of one agent while the   *)
(*                other agent holds rows.                                  *)
(* SpecSession    insert_agent_myth_safe_with_session beside               *)
(*                insert_agent_myth_safe.                                  *)
(* SpecTxFair     SpecTx with weak fairness of the steps of its calls.     *)
(***************************************************************************)
EXTENDS Integers, Sequences, FiniteSets, TLC

\* ---- bounds of the model ----
MaxMyth == 4
MaxRetention == 2
MaxPairs == 2
MaxEvents == 3
MaxIncrements == 2

\* ---- constants of the program ----
MinMemorySize == 3
max_retries == 5
PositionOffset == 10000
PositionShiftBack == 9999
\* 0.01 s, in milliseconds
BackoffBase == 10

\* rows of the table myths; MaxMyth + 1 is an id no myth has
Myths == 1..MaxMyth
MythInputs == 1..(MaxMyth + 1)
\* rows of the table agents, and an id no agent has
AgentIds == {1, 2}
AgentInputs == AgentIds \cup {Cardinality(AgentIds) + 1}
Retentions == 1..MaxRetention
RetentionInputs == 0..MaxRetention

\* callers: one in the sequential specification, two in the concurrent one
SeqProcs == {1}
ConcProcs == {1, 2}
Procs == SeqProcs \cup ConcProcs
NoProc == 0

VARIABLES
    agents,       \* table agents: id -> memory_size
    agent_myths,  \* committed rows of table agent_myths
    agent_lock,   \* holder of the row lock (SELECT ... FOR UPDATE) of each agent
    pc,           \* position of each caller in the call it is running
    call,         \* the call each caller runs or has just returned from
    tx,           \* the table as seen inside each caller's open transaction
    myths,        \* table myths: the ids of its rows
    events,       \* committed rows of table events
    epoch         \* table epoch: current_epoch of the row 'only'

vars == <<agents, agent_myths, agent_lock, pc, call, tx, myths, events, epoch>>

\* the tables the functions on agent_myths do not write
otherTables == <<myths, events, epoch>>

\* ---- rows and queries ----
Row(m, a, pos, r) == [myth_id |-> m, agent_id |-> a, position |-> pos, retention |-> r]

RowsOf(tbl, a) == {row \in tbl : row.agent_id = a}

\* SELECT COUNT(*) FROM agent_myths WHERE agent_id = a
CountOf(tbl, a) == Cardinality(RowsOf(tbl, a))

\* SELECT 1 FROM agent_myths WHERE myth_id = m
MythAssigned(tbl, m) == \E row \in tbl : row.myth_id = m


\* the rows in the order of ORDER BY position ASC
RECURSIVE OrderedByPosition(_)
OrderedByPosition(rows) ==
    IF rows = {} THEN << >>
    ELSE LET first == CHOOSE x \in rows : \A y \in rows : y.position >= x.position
         IN  <<first>> \o OrderedByPosition(rows \ {first})

\* variant: ORDER BY retention DESC alone, ties resolved towards the higher myth_id
RetentionOrderBeforeHighIdFirst(x, y) ==
    \/ x.retention > y.retention
    \/ x.retention = y.retention /\ x.myth_id > y.myth_id

\* ORDER BY retention DESC, myth_id ASC
RetentionOrderBefore(x, y) ==
    \/ x.retention > y.retention
    \/ x.retention = y.retention /\ x.myth_id < y.myth_id

\* ---- the statements of insert_agent_myth_safe ----


\* variant: DELETE FROM agent_myths WHERE agent_id = a, without the subquery
EvictEveryRow(tbl, a) == {row \in tbl : row.agent_id # a}

\* variant: ORDER BY position ASC in the subquery
EvictLowestPosition(tbl, a) ==
    LET rows == RowsOf(tbl, a)
    IN  IF rows = {} THEN tbl
        ELSE LET victim == CHOOSE x \in rows : \A y \in rows : y.position >= x.position
             IN  {row \in tbl : row.myth_id # victim.myth_id}

\* DELETE ... WHERE myth_id = (SELECT myth_id ... WHERE agent_id = a
\*                             ORDER BY position DESC LIMIT 1)
EvictHighestPosition(tbl, a) ==
    LET rows == RowsOf(tbl, a)
    IN  IF rows = {} THEN tbl
        ELSE LET victim == CHOOSE x \in rows : \A y \in rows : y.position <= x.position
             IN  {row \in tbl : row.myth_id # victim.myth_id}


\* variant: the shift without WHERE agent_id = a
ShiftPositionsUpAllAgents(tbl, a) ==
    {[row EXCEPT !.position = row.position + PositionOffset] : row \in tbl}

\* UPDATE agent_myths SET position = position + 10000 WHERE agent_id = a
ShiftPositionsUp(tbl, a) ==
    {IF row.agent_id = a
        THEN [row EXCEPT !.position = row.position + PositionOffset]
        ELSE row : row \in tbl}


\* variant: the shift back takes the whole offset off
ShiftPositionsBackByOffset(tbl, a, m) ==
    {IF row.agent_id = a /\ row.myth_id # m
        THEN [row EXCEPT !.position = row.position - PositionOffset]
        ELSE row : row \in tbl}

\* UPDATE agent_myths SET position = position - 9999
\* WHERE agent_id = a AND myth_id != m
ShiftPositionsBack(tbl, a, m) ==
    {IF row.agent_id = a /\ row.myth_id # m
        THEN [row EXCEPT !.position = row.position - PositionShiftBack]
        ELSE row : row \in tbl}

\* variant: ties on the retention ordered by myth_id DESC
RetentionRowNumberIdDesc(rows, x) ==
    Cardinality({y \in rows : \/ y.retention > x.retention
                              \/ y.retention = x.retention /\ y.myth_id > x.myth_id})

\* ROW_NUMBER() OVER (ORDER BY retention DESC, myth_id ASC) - 1
RetentionRowNumber(rows, x) ==
    Cardinality({y \in rows : RetentionOrderBefore(y, x)})

\* ROW_NUMBER() OVER (ORDER BY position ASC) - 1
PositionRowNumber(rows, x) ==
    Cardinality({y \in rows : y.position < x.position})


\* variant: new_pos of step 1 by the position order the shift back has left
ReorderStep1ByPosition(tbl, a) ==
    LET rows == RowsOf(tbl, a)
    IN  {IF \E x \in rows : x.myth_id = row.myth_id
            THEN LET x == CHOOSE x \in rows : x.myth_id = row.myth_id
                 IN  [row EXCEPT !.position = PositionRowNumber(rows, x) + PositionOffset]
            ELSE row : row \in tbl}

\* Step 1: position = new_pos + 10000, new_pos by retention order, joined on myth_id
ReorderStep1(tbl, a) ==
    LET rows == RowsOf(tbl, a)
    IN  {IF \E x \in rows : x.myth_id = row.myth_id
            THEN LET x == CHOOSE x \in rows : x.myth_id = row.myth_id
                 IN  [row EXCEPT !.position = RetentionRowNumber(rows, x) + PositionOffset]
            ELSE row : row \in tbl}

\* variant: ROW_NUMBER() without the "- 1"
ReorderStep2OneBased(tbl, a) ==
    LET rows == RowsOf(tbl, a)
    IN  {IF \E x \in rows : x.myth_id = row.myth_id
            THEN LET x == CHOOSE x \in rows : x.myth_id = row.myth_id
                 IN  [row EXCEPT !.position = PositionRowNumber(rows, x) + 1]
            ELSE row : row \in tbl}

\* Step 2: position = new_pos, new_pos by position order, joined on myth_id
ReorderStep2(tbl, a) ==
    LET rows == RowsOf(tbl, a)
    IN  {IF \E x \in rows : x.myth_id = row.myth_id
            THEN LET x == CHOOSE x \in rows : x.myth_id = row.myth_id
                 IN  [row EXCEPT !.position = PositionRowNumber(rows, x)]
            ELSE row : row \in tbl}

\* ---- the schema of agent_myths ----

\* CHECK (retention > 0) on agent_myths
RetentionCheckViolated(r) == r <= 0

\* variant: no constraint on myth_id alone
UniqueViolationNever(tbl, m) == FALSE

\* UNIQUE (myth_id) on agent_myths: a myth is in the memory of one agent at most
UniqueViolation(tbl, m) == \E row \in tbl : row.myth_id = m


\* the position of the row of myth m
PositionOf(tbl, m) == (CHOOSE row \in tbl : row.myth_id = m).position

\* the positions of the rows of agent a: myth_id -> position
PositionsOf(tbl, a) ==
    [m \in {row.myth_id : row \in RowsOf(tbl, a)} |-> PositionOf(tbl, m)]

\* UNIQUE (agent_id, position) on agent_myths, checked as each row is written:
\* an UPDATE that moves the rows todo from cur to target, in the order the scan
\* happens to visit them, can raise when a visited row's target is the position
\* another row has at that moment
RECURSIVE UpdateCanRaise(_, _, _)
UpdateCanRaise(cur, todo, target) ==
    \E m \in todo :
        \/ /\ target[m] # cur[m]
           /\ \E y \in DOMAIN cur \ {m} : cur[y] = target[m]
        \/ UpdateCanRaise([cur EXCEPT ![m] = target[m]], todo \ {m}, target)

\* the same UPDATE can complete when some visiting order meets no taken position
RECURSIVE UpdateCanComplete(_, _, _)
UpdateCanComplete(cur, todo, target) ==
    \/ todo = {}
    \/ \E m \in todo :
          /\ target[m] = cur[m] \/ \A y \in DOMAIN cur \ {m} : cur[y] # target[m]
          /\ UpdateCanComplete([cur EXCEPT ![m] = target[m]], todo \ {m}, target)

\* an UPDATE of the positions of agent a that turns the table from into the table to
PositionUpdateCanRaise(from, to, a) ==
    UpdateCanRaise(PositionsOf(from, a), DOMAIN PositionsOf(from, a), PositionsOf(to, a))

PositionUpdateCanComplete(from, to, a) ==
    UpdateCanComplete(PositionsOf(from, a), DOMAIN PositionsOf(from, a), PositionsOf(to, a))

\* UNIQUE (agent_id, position) at an INSERT
PositionTaken(tbl, a, pos) == \E row \in tbl : row.agent_id = a /\ row.position = pos

\* FOREIGN KEY (myth_id) REFERENCES myths
ForeignKeyViolation(m) == m \notin myths

\* SQL function recalculate_agent_myth_positions_by_retention(agent): the
\* agent's rows sorted by retention descending, then myth_id ascending, get
\* the positions 0, 1, ..., n-1 in that order
recalculate_positions(tbl, a) ==
    LET rows == RowsOf(tbl, a)
    IN  {IF row \in rows
            THEN [row EXCEPT !.position = RetentionRowNumber(rows, row)]
            ELSE row : row \in tbl}

\* ---- one attempt of insert_agent_myth_safe, after the checks ----


\* trigger trim_agent_memory, fired by a decrease of agents.memory_size: the row
\* of the agent with the highest position is removed until the count is within
\* the new size, then the positions are recalculated
RECURSIVE trim_agent_memory(_, _, _)
trim_agent_memory(tbl, a, new_size) ==
    IF CountOf(tbl, a) > new_size
       THEN trim_agent_memory(EvictHighestPosition(tbl, a), a, new_size)
       ELSE recalculate_positions(tbl, a)

\* CHECK (memory_size >= 3) on agents
MemorySizeCheckViolated(size) == size < MinMemorySize



\* variant: the DELETE at the memory size limit runs after the reorder, on the
\* rows with the new one among them
InsertAttemptEvictLast(tbl, cur_count, max_size, m, a, r) ==
    LET inserted == ShiftPositionsUp(tbl, a) \cup {Row(m, a, 0, r)}
        reordered == ReorderStep2(ReorderStep1(ShiftPositionsBack(inserted, a, m), a), a)
    IN  IF UniqueViolation(tbl, m) THEN {[table |-> tbl, outcome |-> "duplicate_key"]}
        ELSE IF ForeignKeyViolation(m) \/ RetentionCheckViolated(r)
           THEN {[table |-> tbl, outcome |-> "error"]}
        ELSE {[table |-> IF cur_count >= max_size
                            THEN EvictHighestPosition(reordered, a) ELSE reordered,
               outcome |-> "ok"]}

\* variant: the attempt commits after the shift back, without the two-step reorder
InsertAttemptNoReorder(tbl, cur_count, max_size, m, a, r) ==
    LET evicted == IF cur_count >= max_size THEN EvictHighestPosition(tbl, a) ELSE tbl
        inserted == ShiftPositionsUp(evicted, a) \cup {Row(m, a, 0, r)}
    IN  IF UniqueViolation(evicted, m) THEN {[table |-> tbl, outcome |-> "duplicate_key"]}
        ELSE IF ForeignKeyViolation(m) \/ RetentionCheckViolated(r)
           THEN {[table |-> tbl, outcome |-> "error"]}
        ELSE {[table |-> ShiftPositionsBack(inserted, a, m), outcome |-> "ok"]}

\* eviction at the memory size limit, shift, INSERT, shift back and the two-step
\* reorder, up to the commit; cur_count is the count the transaction has read.
\* The result is the set of ways the attempt can end: a statement raises on a
\* violated constraint of the table (the table is then as before the attempt),
\* and an UPDATE of positions raises or not with the order it visits the rows in
InsertAttempt(tbl, cur_count, max_size, m, a, r) ==
    LET raised(o) == {[table |-> tbl, outcome |-> o]}
        when(b, s) == IF b THEN s ELSE {}
        evicted == IF cur_count >= max_size THEN EvictHighestPosition(tbl, a) ELSE tbl
        shifted == ShiftPositionsUp(evicted, a)
        inserted == shifted \cup {Row(m, a, 0, r)}
        back == ShiftPositionsBack(inserted, a, m)
        step1 == ReorderStep1(back, a)
        step2 == ReorderStep2(step1, a)
        afterStep1 ==
            when(PositionUpdateCanRaise(step1, step2, a), raised("duplicate_position"))
            \cup when(PositionUpdateCanComplete(step1, step2, a),
                      {[table |-> step2, outcome |-> "ok"]})
        afterBack ==
            when(PositionUpdateCanRaise(back, step1, a), raised("duplicate_position"))
            \cup when(PositionUpdateCanComplete(back, step1, a), afterStep1)
        afterInsert ==
            when(PositionUpdateCanRaise(inserted, back, a), raised("duplicate_position"))
            \cup when(PositionUpdateCanComplete(inserted, back, a), afterBack)
        afterShift ==
            IF UniqueViolation(shifted, m) \/ PositionTaken(shifted, a, 0)
               THEN when(UniqueViolation(shifted, m), raised("duplicate_key"))
                    \cup when(PositionTaken(shifted, a, 0), raised("duplicate_position"))
            ELSE IF ForeignKeyViolation(m) \/ RetentionCheckViolated(r)
               THEN raised("error")
            ELSE afterInsert
    IN  when(PositionUpdateCanRaise(evicted, shifted, a), raised("duplicate_position"))
        \cup when(PositionUpdateCanComplete(evicted, shifted, a), afterShift)


\* the table inside the transaction of an attempt after each of its statements
\* that completes: the DELETE at the memory size limit, the shift, the INSERT,
\* the shift back and the two steps of the reorder
InsertSteps(tbl, cur_count, max_size, m, a, r) ==
    LET evicted == IF cur_count >= max_size THEN EvictHighestPosition(tbl, a) ELSE tbl
        shifted == ShiftPositionsUp(evicted, a)
        inserted == shifted \cup {Row(m, a, 0, r)}
        back == ShiftPositionsBack(inserted, a, m)
        step1 == ReorderStep1(back, a)
        step2 == ReorderStep2(step1, a)
    IN  IF \/ UniqueViolation(shifted, m) \/ PositionTaken(shifted, a, 0)
           \/ ForeignKeyViolation(m) \/ RetentionCheckViolated(r)
           THEN <<evicted, shifted>>
           ELSE <<evicted, shifted, inserted, back, step1, step2>>

\* the errors whose message holds "duplicate key value violates unique constraint"
DuplicateKeyErrors == {"duplicate_key", "duplicate_position"}

\* ---- the transaction of update_retentions_and_reorder ----

\* the retentions a transaction has written and not yet committed: myth_id -> retention
NoWrites == [m \in {} |-> 0]

WriteRetention(w, m, r) ==
    [x \in (DOMAIN w) \cup {m} |-> IF x = m THEN r ELSE w[x]]

\* the table as the transaction sees it: the committed rows with its own writes
TxView(tbl, a, w) ==
    {IF row.agent_id = a /\ row.myth_id \in DOMAIN w
        THEN [row EXCEPT !.retention = w[row.myth_id]]
        ELSE row : row \in tbl}

\* rows matched by UPDATE ... WHERE myth_id = m AND agent_id = a (cur.rowcount)
RowCount(tbl, m, a) == Cardinality({row \in tbl : row.myth_id = m /\ row.agent_id = a})

\* ---- callers ----
NoCall ==
    [op |-> "none", myth_id |-> 0, agent_id |-> 0, retention |-> 0,
     attempt |-> 0, cur_count |-> 0, evicted |-> {}, n |-> 0, outcome |-> "none"]

\* slept: the waits of the call so far, in milliseconds
InsertCallRecord(m, a, r, out) ==
    [op |-> "insert", myth_id |-> m, agent_id |-> a, retention |-> r,
     attempt |-> 0, cur_count |-> 0, evicted |-> {}, n |-> 0, outcome |-> out,
     slept |-> << >>]

\* variant: the same wait before every retry
backoffConstant(attempt) == BackoffBase

\* time.sleep(0.01 * (2 ** attempt))
backoff(attempt) == BackoffBase * 2^attempt

\* the retry branch of the except clause: the sleep, then `continue` to the
\* next attempt
RetryAfterBackoff(c) ==
    [c EXCEPT !.attempt = c.attempt + 1, !.slept = Append(c.slept, backoff(c.attempt))]

\* a call returns: its record keeps the outcome until the caller goes on
Return(p, out) ==
    /\ pc' = [pc EXCEPT ![p] = "returned"]
    /\ call' = [call EXCEPT ![p].outcome = out]

\* the caller has the returned value and is free to make its next call
Resume(p) ==
    /\ pc[p] = "returned"
    /\ pc' = [pc EXCEPT ![p] = "idle"]
    /\ call' = [call EXCEPT ![p] = NoCall]
    /\ UNCHANGED <<agents, agent_myths, agent_lock, tx>>

\* an empty table agent_myths; every agent has the smallest memory_size the
\* schema allows
Init ==
    /\ agents = [a \in AgentIds |-> MinMemorySize]
    /\ myths = Myths
    /\ events = {}
    /\ epoch = 0
    /\ agent_myths = {}
    /\ agent_lock = [a \in AgentIds |-> NoProc]
    /\ pc = [p \in Procs |-> "idle"]
    /\ call = [p \in Procs |-> NoCall]
    /\ tx = [p \in Procs |-> NoWrites]

\* variant: no validation of the retention before the transaction
InsertCallNoValidation(p, m, a, r) ==
    /\ pc[p] = "idle"
    /\ call' = [call EXCEPT ![p] = InsertCallRecord(m, a, r, "running")]
    /\ pc' = [pc EXCEPT ![p] = "lock"]
    /\ UNCHANGED <<agents, agent_myths, agent_lock, tx>>

\* insert_agent_myth_safe is called: the retention is validated before anything else
InsertCall(p, m, a, r) ==
    /\ pc[p] = "idle"
    /\ IF r <= 0
          THEN /\ call' = [call EXCEPT ![p] = InsertCallRecord(m, a, r, "invalid_retention")]
               /\ pc' = [pc EXCEPT ![p] = "returned"]
          ELSE /\ call' = [call EXCEPT ![p] = InsertCallRecord(m, a, r, "running")]
               /\ pc' = [pc EXCEPT ![p] = "lock"]
    /\ UNCHANGED <<agents, agent_myths, agent_lock, tx>>

\* variant: an agent that is not found is handled as a race and retried
InsertLockRetryNotFound(p) ==
    /\ pc[p] = "lock"
    /\ LET a == call[p].agent_id
       IN  IF a \notin DOMAIN agents
              THEN /\ IF call[p].attempt < max_retries - 1
                         THEN /\ pc' = pc
                              /\ call' = [call EXCEPT ![p] = RetryAfterBackoff(call[p])]
                         ELSE Return(p, "agent_not_found")
                   /\ UNCHANGED agent_lock
           ELSE /\ agent_lock[a] = NoProc
                /\ IF agents[a] = 0
                      THEN Return(p, "memory_size_zero") /\ UNCHANGED agent_lock
                      ELSE /\ agent_lock' = [agent_lock EXCEPT ![a] = p]
                           /\ pc' = [pc EXCEPT ![p] = "check"]
                           /\ call' = call
    /\ UNCHANGED <<agents, agent_myths, tx>>

\* variant: SELECT without FOR UPDATE, which waits for nobody
InsertLockNoWait(p) ==
    /\ pc[p] = "lock"
    /\ LET a == call[p].agent_id
       IN  IF a \notin DOMAIN agents
              THEN Return(p, "agent_not_found") /\ UNCHANGED agent_lock
           ELSE IF agents[a] = 0
              THEN Return(p, "memory_size_zero") /\ UNCHANGED agent_lock
           ELSE /\ agent_lock' = [agent_lock EXCEPT ![a] = p]
                /\ pc' = [pc EXCEPT ![p] = "check"]
                /\ call' = call
    /\ UNCHANGED <<agents, agent_myths, tx>>

\* BEGIN; SELECT memory_size FROM agents WHERE id = a FOR UPDATE
\* waits while another transaction holds the row; finds no row for an unknown agent
InsertLock(p) ==
    /\ pc[p] = "lock"
    /\ LET a == call[p].agent_id
       IN  IF a \notin DOMAIN agents
              THEN Return(p, "agent_not_found") /\ UNCHANGED agent_lock
           ELSE /\ agent_lock[a] = NoProc
                /\ IF agents[a] = 0
                      THEN Return(p, "memory_size_zero") /\ UNCHANGED agent_lock
                      ELSE /\ agent_lock' = [agent_lock EXCEPT ![a] = p]
                           /\ pc' = [pc EXCEPT ![p] = "check"]
                           /\ call' = call
    /\ UNCHANGED <<agents, agent_myths, tx>>

\* variant: SELECT 1 ... WHERE myth_id = m AND agent_id = a
InsertCheckSameAgent(p) ==
    /\ pc[p] = "check"
    /\ IF \E row \in agent_myths :
             row.myth_id = call[p].myth_id /\ row.agent_id = call[p].agent_id
          THEN /\ Return(p, "already_assigned")
               /\ agent_lock' = [agent_lock EXCEPT ![call[p].agent_id] = NoProc]
          ELSE /\ pc' = [pc EXCEPT ![p] = "write"]
               /\ call' = [call EXCEPT ![p].cur_count = CountOf(agent_myths, call[p].agent_id)]
               /\ agent_lock' = agent_lock
    /\ UNCHANGED <<agents, agent_myths, tx>>


\* variant: the return for an assigned myth leaves the agent row locked
InsertCheckKeepLock(p) ==
    /\ pc[p] = "check"
    /\ IF MythAssigned(agent_myths, call[p].myth_id)
          THEN /\ Return(p, "already_assigned")
               /\ agent_lock' = agent_lock
          ELSE /\ pc' = [pc EXCEPT ![p] = "write"]
               /\ call' = [call EXCEPT ![p].cur_count = CountOf(agent_myths, call[p].agent_id)]
               /\ agent_lock' = agent_lock
    /\ UNCHANGED <<agents, agent_myths, tx>>

\* SELECT 1 FROM agent_myths WHERE myth_id = m: an assigned myth ends the call;
\* otherwise SELECT COUNT(*) FROM agent_myths WHERE agent_id = a
InsertCheck(p) ==
    /\ pc[p] = "check"
    /\ IF MythAssigned(agent_myths, call[p].myth_id)
          THEN /\ Return(p, "already_assigned")
               /\ agent_lock' = [agent_lock EXCEPT ![call[p].agent_id] = NoProc]
          ELSE /\ pc' = [pc EXCEPT ![p] = "write"]
               /\ call' = [call EXCEPT ![p].cur_count = CountOf(agent_myths, call[p].agent_id)]
               /\ agent_lock' = agent_lock
    /\ UNCHANGED <<agents, agent_myths, tx>>

\* the rows of before whose myth is in no row of after
RemovedRows(before, after) ==
    {x \in before : ~ \E y \in after : y.myth_id = x.myth_id}



\* variant: the connection commits what the attempt has done when it is closed
\* after an error: the DELETE at the memory size limit stays
InsertWriteCommitOnClose(p) ==
    /\ pc[p] = "write"
    /\ \E res \in InsertAttempt(agent_myths, call[p].cur_count, agents[call[p].agent_id],
                                call[p].myth_id, call[p].agent_id, call[p].retention) :
       LET c == call[p]
           evicted == IF c.cur_count >= agents[c.agent_id]
                         THEN EvictHighestPosition(agent_myths, c.agent_id)
                         ELSE agent_myths
       IN  /\ agent_lock' = [agent_lock EXCEPT ![c.agent_id] = NoProc]
           /\ IF res.outcome = "ok"
                 THEN /\ agent_myths' = res.table
                      /\ pc' = [pc EXCEPT ![p] = "returned"]
                      /\ call' = [call EXCEPT ![p].outcome = "ok",
                                              ![p].evicted = RemovedRows(agent_myths, res.table)]
              ELSE IF res.outcome \in DuplicateKeyErrors /\ c.attempt < max_retries - 1
                 THEN /\ agent_myths' = evicted
                      /\ pc' = [pc EXCEPT ![p] = "lock"]
                      /\ call' = [call EXCEPT ![p] = RetryAfterBackoff(c)]
              ELSE /\ agent_myths' = evicted
                   /\ Return(p, "error")
    /\ UNCHANGED <<agents, tx>>

\* variant: the retry test is attempt < max_retries
InsertWriteRetryOnceMore(p) ==
    /\ pc[p] = "write"
    /\ \E res \in InsertAttempt(agent_myths, call[p].cur_count, agents[call[p].agent_id],
                                call[p].myth_id, call[p].agent_id, call[p].retention) :
       LET c == call[p]
       IN  /\ agent_lock' = [agent_lock EXCEPT ![c.agent_id] = NoProc]
           /\ IF res.outcome = "ok"
                 THEN /\ agent_myths' = res.table
                      /\ pc' = [pc EXCEPT ![p] = "returned"]
                      /\ call' = [call EXCEPT ![p].outcome = "ok",
                                              ![p].evicted = RemovedRows(agent_myths, res.table)]
              ELSE IF res.outcome \in DuplicateKeyErrors /\ c.attempt < max_retries
                 THEN /\ agent_myths' = agent_myths
                      /\ pc' = [pc EXCEPT ![p] = "lock"]
                      /\ call' = [call EXCEPT ![p] = RetryAfterBackoff(c)]
              ELSE /\ agent_myths' = agent_myths
                   /\ Return(p, "error")
    /\ UNCHANGED <<agents, tx>>

\* the rest of the attempt up to the commit, and the except clause: an error
\* with "duplicate key value violates unique constraint" in its message is
\* retried while attempt < max_retries - 1, any other error returns False
InsertWrite(p) ==
    /\ pc[p] = "write"
    /\ \E res \in InsertAttempt(agent_myths, call[p].cur_count, agents[call[p].agent_id],
                                call[p].myth_id, call[p].agent_id, call[p].retention) :
       LET c == call[p]
       IN  /\ agent_lock' = [agent_lock EXCEPT ![c.agent_id] = NoProc]
           /\ IF res.outcome = "ok"
                 THEN /\ agent_myths' = res.table
                      /\ pc' = [pc EXCEPT ![p] = "returned"]
                      /\ call' = [call EXCEPT ![p].outcome = "ok",
                                              ![p].evicted = RemovedRows(agent_myths, res.table)]
              ELSE IF res.outcome \in DuplicateKeyErrors /\ c.attempt < max_retries - 1
                 THEN /\ agent_myths' = agent_myths
                      /\ pc' = [pc EXCEPT ![p] = "lock"]
                      /\ call' = [call EXCEPT ![p] = RetryAfterBackoff(c)]
              ELSE /\ agent_myths' = agent_myths
                   /\ Return(p, "error")
    /\ UNCHANGED <<agents, tx>>

BulkCallRecord(a, out) ==
    [op |-> "bulk", myth_id |-> 0, agent_id |-> a, retention |-> 0,
     attempt |-> 0, cur_count |-> 0, evicted |-> {}, n |-> 0, outcome |-> out]


\* variant: no early return for the empty list; the transaction is opened for
\* the agent, which fails for an agent that does not exist
BulkCallNoEmptyCheck(p, a, empty) ==
    /\ pc[p] = "idle"
    /\ IF empty
          THEN /\ call' = [call EXCEPT ![p] = BulkCallRecord(a,
                              IF a \in DOMAIN agents THEN "ok" ELSE "error")]
               /\ pc' = [pc EXCEPT ![p] = "returned"]
          ELSE /\ call' = [call EXCEPT ![p] = BulkCallRecord(a, "running")]
               /\ pc' = [pc EXCEPT ![p] = "bulk"]
    /\ tx' = [tx EXCEPT ![p] = NoWrites]
    /\ UNCHANGED <<agents, agent_myths, agent_lock>>

\* update_retentions_and_reorder is called; an empty list returns True at once
BulkCall(p, a, empty) ==
    /\ pc[p] = "idle"
    /\ IF empty
          THEN /\ call' = [call EXCEPT ![p] = BulkCallRecord(a, "ok")]
               /\ pc' = [pc EXCEPT ![p] = "returned"]
          ELSE /\ call' = [call EXCEPT ![p] = BulkCallRecord(a, "running")]
               /\ pc' = [pc EXCEPT ![p] = "bulk"]
    /\ tx' = [tx EXCEPT ![p] = NoWrites]
    /\ UNCHANGED <<agents, agent_myths, agent_lock>>


\* variant: conn.commit() in place of conn.rollback() in the except clause
BulkUpdateRowCommitOnError(p, m, r) ==
    /\ pc[p] = "bulk"
    /\ call[p].n < MaxPairs
    /\ LET a == call[p].agent_id
           c == [call[p] EXCEPT !.myth_id = m]
       IN  IF RowCount(TxView(agent_myths, a, tx[p]), m, a) = 0
              THEN /\ pc' = [pc EXCEPT ![p] = "returned"]
                   /\ call' = [call EXCEPT ![p] = [c EXCEPT !.outcome = "not_found"]]
                   /\ tx' = [tx EXCEPT ![p] = NoWrites]
                   /\ agent_myths' = agent_myths
           ELSE IF RetentionCheckViolated(r)
              THEN /\ pc' = [pc EXCEPT ![p] = "returned"]
                   /\ call' = [call EXCEPT ![p] = [c EXCEPT !.retention = r, !.outcome = "error"]]
                   /\ tx' = [tx EXCEPT ![p] = NoWrites]
                   /\ agent_myths' = TxView(agent_myths, a, tx[p])
           ELSE /\ pc' = pc
                /\ call' = [call EXCEPT ![p] = [c EXCEPT !.n = c.n + 1]]
                /\ tx' = [tx EXCEPT ![p] = WriteRetention(tx[p], m, r)]
                /\ agent_myths' = agent_myths
    /\ UNCHANGED <<agents, agent_lock>>

\* variant: conn.commit() in place of conn.rollback() when no row matched
BulkUpdateRowCommitPartial(p, m, r) ==
    /\ pc[p] = "bulk"
    /\ call[p].n < MaxPairs
    /\ LET a == call[p].agent_id
           c == [call[p] EXCEPT !.myth_id = m]
       IN  IF RowCount(TxView(agent_myths, a, tx[p]), m, a) = 0
              THEN /\ pc' = [pc EXCEPT ![p] = "returned"]
                   /\ call' = [call EXCEPT ![p] = [c EXCEPT !.outcome = "not_found"]]
                   /\ tx' = [tx EXCEPT ![p] = NoWrites]
                   /\ agent_myths' = TxView(agent_myths, a, tx[p])
           ELSE IF RetentionCheckViolated(r)
              THEN /\ pc' = [pc EXCEPT ![p] = "returned"]
                   /\ call' = [call EXCEPT ![p] = [c EXCEPT !.retention = r, !.outcome = "error"]]
                   /\ tx' = [tx EXCEPT ![p] = NoWrites]
                   /\ agent_myths' = agent_myths
           ELSE /\ pc' = pc
                /\ call' = [call EXCEPT ![p] = [c EXCEPT !.n = c.n + 1]]
                /\ tx' = [tx EXCEPT ![p] = WriteRetention(tx[p], m, r)]
                /\ agent_myths' = agent_myths
    /\ UNCHANGED <<agents, agent_lock>>

\* one turn of the loop over myth_retention_pairs, for the pair (m, r):
\* UPDATE ... SET retention = r WHERE myth_id = m AND agent_id = a; no row
\* matched, or an exception, rolls back and returns False
BulkUpdateRow(p, m, r) ==
    /\ pc[p] = "bulk"
    /\ call[p].n < MaxPairs
    /\ LET a == call[p].agent_id
           c == [call[p] EXCEPT !.myth_id = m]
       IN  IF RowCount(TxView(agent_myths, a, tx[p]), m, a) = 0
              THEN /\ pc' = [pc EXCEPT ![p] = "returned"]
                   /\ call' = [call EXCEPT ![p] = [c EXCEPT !.outcome = "not_found"]]
                   /\ tx' = [tx EXCEPT ![p] = NoWrites]
           ELSE IF RetentionCheckViolated(r)
              THEN /\ pc' = [pc EXCEPT ![p] = "returned"]
                   /\ call' = [call EXCEPT ![p] = [c EXCEPT !.retention = r, !.outcome = "error"]]
                   /\ tx' = [tx EXCEPT ![p] = NoWrites]
           ELSE /\ pc' = pc
                /\ call' = [call EXCEPT ![p] = [c EXCEPT !.n = c.n + 1]]
                /\ tx' = [tx EXCEPT ![p] = WriteRetention(tx[p], m, r)]
    /\ UNCHANGED <<agents, agent_myths, agent_lock>>


\* variant: commit without the call of the SQL function
BulkFinishNoReorder(p) ==
    /\ pc[p] = "bulk"
    /\ call[p].n >= 1
    /\ agent_myths' = TxView(agent_myths, call[p].agent_id, tx[p])
    /\ Return(p, "ok")
    /\ tx' = [tx EXCEPT ![p] = NoWrites]
    /\ UNCHANGED <<agents, agent_lock>>

\* after the last pair: SELECT recalculate_agent_myth_positions_by_retention(a); commit
BulkFinish(p) ==
    /\ pc[p] = "bulk"
    /\ call[p].n >= 1
    /\ LET a == call[p].agent_id
       IN  agent_myths' = recalculate_positions(TxView(agent_myths, a, tx[p]), a)
    /\ Return(p, "ok")
    /\ tx' = [tx EXCEPT ![p] = NoWrites]
    /\ UNCHANGED <<agents, agent_lock>>

ReindexCallRecord(a, out) ==
    [op |-> "reindex", myth_id |-> 0, agent_id |-> a, retention |-> 0,
     attempt |-> 0, cur_count |-> 0, evicted |-> {}, n |-> 0, outcome |-> out]


\* variant: rows of equal retention are ordered by their position, last first
ReindexTieByPosition(p, a) ==
    /\ pc[p] = "idle"
    /\ agent_myths' =
          LET rows == RowsOf(agent_myths, a)
          IN  {IF row \in rows
                  THEN [row EXCEPT !.position =
                          Cardinality({y \in rows :
                              \/ y.retention > row.retention
                              \/ y.retention = row.retention /\ y.position > row.position})]
                  ELSE row : row \in agent_myths}
    /\ call' = [call EXCEPT ![p] = [ReindexCallRecord(a, "ok") EXCEPT
                    !.n = Cardinality(agent_myths \ agent_myths')]]
    /\ pc' = [pc EXCEPT ![p] = "returned"]
    /\ UNCHANGED <<agents, agent_lock, tx>>

\* connector recalculate_agent_myth_positions_by_retention(agent_id):
\* one call of the SQL function and a commit
Reindex(p, a) ==
    /\ pc[p] = "idle"
    /\ agent_myths' = recalculate_positions(agent_myths, a)
    /\ call' = [call EXCEPT ![p] = [ReindexCallRecord(a, "ok") EXCEPT
                    !.n = Cardinality(agent_myths \ recalculate_positions(agent_myths, a))]]
    /\ pc' = [pc EXCEPT ![p] = "returned"]
    /\ UNCHANGED <<agents, agent_lock, tx>>



UpdateRetentionCallRecord(a, m, r, out) ==
    [op |-> "update_retention", myth_id |-> m, agent_id |-> a, retention |-> r,
     attempt |-> 0, cur_count |-> 0, evicted |-> {}, n |-> 0, outcome |-> out]

\* update_agent_myth_retention(agent_id, myth_id, retention): one UPDATE of the
\* retention and a commit; True when a row matched. There is no try: the error
\* of a violated CHECK leaves the function as an exception, nothing committed
UpdateRetention(p, a, m, r) ==
    /\ pc[p] = "idle"
    /\ pc' = [pc EXCEPT ![p] = "returned"]
    /\ IF RowCount(agent_myths, m, a) = 0
          THEN /\ agent_myths' = agent_myths
               /\ call' = [call EXCEPT ![p] = UpdateRetentionCallRecord(a, m, r, "not_found")]
       ELSE IF RetentionCheckViolated(r)
          THEN /\ agent_myths' = agent_myths
               /\ call' = [call EXCEPT ![p] = UpdateRetentionCallRecord(a, m, r, "raised")]
       ELSE /\ agent_myths' = TxView(agent_myths, a, WriteRetention(NoWrites, m, r))
            /\ call' = [call EXCEPT ![p] = UpdateRetentionCallRecord(a, m, r, "ok")]
    /\ UNCHANGED <<agents, agent_lock, tx>>


\* update_myth of myth_store, called first by update_myth_with_retention: it
\* writes the row of the myth in the table myths and returns True when there
\* is one
update_myth_store(m) == m \in myths

UpdateMythCallRecord(a, m, r, out) ==
    [op |-> "update_myth_with_retention", myth_id |-> m, agent_id |-> a, retention |-> r,
     attempt |-> 0, cur_count |-> 0, evicted |-> {}, n |-> 0, outcome |-> out]

\* update_myth_with_retention(agent_id, myth_id, ..., retention) up to the return
\* of update_agent_myth_retention, which has committed the retention: False from
\* update_myth or no matched row returns False, a matched row goes on to the
\* recalculation in a connection of its own
UpdateMythWithRetention(p, a, m, r) ==
    /\ pc[p] = "idle"
    /\ IF ~ update_myth_store(m)
          THEN /\ agent_myths' = agent_myths
               /\ pc' = [pc EXCEPT ![p] = "returned"]
               /\ call' = [call EXCEPT ![p] = UpdateMythCallRecord(a, m, r, "not_updated")]
       ELSE IF RowCount(agent_myths, m, a) = 0
          THEN /\ agent_myths' = agent_myths
               /\ pc' = [pc EXCEPT ![p] = "returned"]
               /\ call' = [call EXCEPT ![p] = UpdateMythCallRecord(a, m, r, "not_found")]
       ELSE IF RetentionCheckViolated(r)
          THEN /\ agent_myths' = agent_myths
               /\ pc' = [pc EXCEPT ![p] = "returned"]
               /\ call' = [call EXCEPT ![p] = UpdateMythCallRecord(a, m, r, "raised")]
       ELSE /\ agent_myths' = TxView(agent_myths, a, WriteRetention(NoWrites, m, r))
            /\ pc' = [pc EXCEPT ![p] = "recalculate"]
            /\ call' = [call EXCEPT ![p] = UpdateMythCallRecord(a, m, r, "running")]
    /\ UNCHANGED <<agents, agent_lock, tx>>

\* the rest of update_myth_with_retention:
\* SELECT recalculate_agent_myth_positions_by_retention(agent_id); commit
UpdateMythRecalculate(p) ==
    /\ pc[p] = "recalculate"
    /\ agent_myths' = recalculate_positions(agent_myths, call[p].agent_id)
    /\ Return(p, "ok")
    /\ UNCHANGED <<agents, agent_lock, tx>>


\* ---- insert_agent_myth_safe_with_session and the commit that follows it ----

\* SELECT COALESCE(MAX(position), -1) + 1 FROM agent_myths WHERE agent_id = a
NextPosition(tbl, a) ==
    IF RowsOf(tbl, a) = {} THEN 0
    ELSE (CHOOSE x \in RowsOf(tbl, a) : \A y \in RowsOf(tbl, a) : y.position <= x.position).position + 1

\* insert_agent_myth_safe_with_session(session, m, a, r) and the commit of the
\* session: the checks, the DELETE at the memory size limit with its reorder by
\* position, the INSERT at the next position and the reorder by retention in
\* one UPDATE. The result is the set of ways the call can end; an exception is
\* caught and returns False, and the commit of the failed transaction writes
\* nothing
SessionInsertAttempt(tbl, m, a, r) ==
    LET returns(o) == {[table |-> tbl, outcome |-> o]}
        when(b, s) == IF b THEN s ELSE {}
    IN  IF r <= 0 THEN returns("invalid_retention")
        ELSE IF a \notin DOMAIN agents THEN returns("agent_not_found")
        ELSE IF agents[a] = 0 THEN returns("memory_size_zero")
        ELSE IF MythAssigned(tbl, m) THEN returns("already_assigned")
        ELSE
        LET evicted == IF CountOf(tbl, a) >= agents[a] THEN EvictHighestPosition(tbl, a) ELSE tbl
            compacted == IF CountOf(tbl, a) >= agents[a] THEN ReorderStep2(evicted, a) ELSE tbl
            inserted == compacted \cup {Row(m, a, NextPosition(compacted, a), r)}
            reordered == recalculate_positions(inserted, a)
            afterInsert ==
                when(PositionUpdateCanRaise(inserted, reordered, a), returns("error"))
                \cup when(PositionUpdateCanComplete(inserted, reordered, a),
                          {[table |-> reordered, outcome |-> "ok"]})
            afterCompact ==
                IF ForeignKeyViolation(m) \/ RetentionCheckViolated(r)
                   THEN returns("error")
                   ELSE afterInsert
        IN  when(PositionUpdateCanRaise(evicted, compacted, a), returns("error"))
            \cup when(PositionUpdateCanComplete(evicted, compacted, a), afterCompact)

SessionInsertCallRecord(m, a, r, out) ==
    [op |-> "insert_with_session", myth_id |-> m, agent_id |-> a, retention |-> r,
     attempt |-> 0, cur_count |-> 0, evicted |-> {}, n |-> 0, outcome |-> out]

\* the call in a session of its own, and session.commit()
SessionInsert(p, m, a, r) ==
    /\ pc[p] = "idle"
    /\ \E res \in SessionInsertAttempt(agent_myths, m, a, r) :
          /\ agent_myths' = res.table
          /\ call' = [call EXCEPT ![p] = SessionInsertCallRecord(m, a, r, res.outcome)]
    /\ pc' = [pc EXCEPT ![p] = "returned"]
    /\ UNCHANGED <<agents, agent_lock, tx>>

RawInsertCallRecord(m, a, r, out) ==
    [op |-> "raw_insert", myth_id |-> m, agent_id |-> a, retention |-> r,
     attempt |-> 0, cur_count |-> 0, evicted |-> {}, n |-> 0, outcome |-> out]

\* insert_agent_myth(myth_id, agent_id, position, retention): one INSERT of the
\* row as given and a commit; any error is rolled back and returns False
RawInsert(p, m, a, pos, r) ==
    /\ pc[p] = "idle"
    /\ IF \/ UniqueViolation(agent_myths, m)
          \/ PositionTaken(agent_myths, a, pos)
          \/ ForeignKeyViolation(m)
          \/ a \notin DOMAIN agents
          \/ RetentionCheckViolated(r)
          THEN /\ agent_myths' = agent_myths
               /\ call' = [call EXCEPT ![p] = RawInsertCallRecord(m, a, r, "error")]
          ELSE /\ agent_myths' = agent_myths \cup {Row(m, a, pos, r)}
               /\ call' = [call EXCEPT ![p] = RawInsertCallRecord(m, a, r, "ok")]
    /\ pc' = [pc EXCEPT ![p] = "returned"]
    /\ UNCHANGED <<agents, agent_lock, tx>>


ResizeCallRecord(a, size, count, out) ==
    [op |-> "resize", myth_id |-> 0, agent_id |-> a, retention |-> 0,
     attempt |-> 0, cur_count |-> count, evicted |-> {}, n |-> size, outcome |-> out]

\* variant: the trigger compares the count with the old memory_size
SetMemorySizeTrimToOld(p, a, size) ==
    /\ pc[p] = "idle"
    /\ pc' = [pc EXCEPT ![p] = "returned"]
    /\ IF a \notin DOMAIN agents
          THEN /\ call' = [call EXCEPT ![p] = ResizeCallRecord(a, size, 0, "ok")]
               /\ UNCHANGED <<agents, agent_myths>>
       ELSE IF MemorySizeCheckViolated(size)
          THEN /\ call' = [call EXCEPT ![p] =
                              ResizeCallRecord(a, size, CountOf(agent_myths, a), "error")]
               /\ UNCHANGED <<agents, agent_myths>>
       ELSE /\ agents' = [agents EXCEPT ![a] = size]
            /\ agent_myths' = IF size < agents[a]
                                 THEN trim_agent_memory(agent_myths, a, agents[a])
                                 ELSE agent_myths
            /\ call' = [call EXCEPT ![p] =
                           [ResizeCallRecord(a, size, CountOf(agent_myths, a), "ok")
                               EXCEPT !.evicted = RemovedRows(agent_myths, agent_myths')]]
    /\ UNCHANGED <<agent_lock, tx>>

\* UPDATE agents SET memory_size = size WHERE id = a, and a commit: a size
\* below the smallest allowed raises; a decrease fires the trigger
SetMemorySize(p, a, size) ==
    /\ pc[p] = "idle"
    /\ pc' = [pc EXCEPT ![p] = "returned"]
    /\ IF a \notin DOMAIN agents
          THEN /\ call' = [call EXCEPT ![p] = ResizeCallRecord(a, size, 0, "ok")]
               /\ UNCHANGED <<agents, agent_myths>>
       ELSE IF MemorySizeCheckViolated(size)
          THEN /\ call' = [call EXCEPT ![p] =
                              ResizeCallRecord(a, size, CountOf(agent_myths, a), "error")]
               /\ UNCHANGED <<agents, agent_myths>>
       ELSE /\ agents' = [agents EXCEPT ![a] = size]
            /\ agent_myths' = IF size < agents[a]
                                 THEN trim_agent_memory(agent_myths, a, size)
                                 ELSE agent_myths
            /\ call' = [call EXCEPT ![p] =
                           [ResizeCallRecord(a, size, CountOf(agent_myths, a), "ok")
                               EXCEPT !.evicted = RemovedRows(agent_myths, agent_myths')]]
    /\ UNCHANGED <<agent_lock, tx>>


DeleteCallRecord(op, m, a) ==
    [op |-> op, myth_id |-> m, agent_id |-> a, retention |-> 0,
     attempt |-> 0, cur_count |-> 0, evicted |-> {}, n |-> 0, outcome |-> "ok"]

\* DELETE FROM myths WHERE id = m, and a commit: the foreign key of agent_myths
\* is ON DELETE CASCADE, the row of the myth goes with it
DeleteMyth(p, m) ==
    /\ pc[p] = "idle"
    /\ pc' = [pc EXCEPT ![p] = "returned"]
    /\ call' = [call EXCEPT ![p] = DeleteCallRecord("delete_myth", m, 0)]
    /\ myths' = myths \ {m}
    /\ agent_myths' = {row \in agent_myths : row.myth_id # m}
    /\ UNCHANGED <<agents, agent_lock, tx, events, epoch>>

\* DELETE FROM agents WHERE id = a, and a commit: the rows of the agent in
\* agent_myths go with it
DeleteAgent(p, a) ==
    /\ pc[p] = "idle"
    /\ pc' = [pc EXCEPT ![p] = "returned"]
    /\ call' = [call EXCEPT ![p] = DeleteCallRecord("delete_agent", 0, a)]
    /\ agents' = [x \in DOMAIN agents \ {a} |-> agents[x]]
    /\ agent_myths' = {row \in agent_myths : row.agent_id # a}
    /\ UNCHANGED <<agent_lock, tx, myths, events, epoch>>

\* ---- one caller at a time ----
\* the agent whose memory the caller fills and updates with every retention;
\* the other agent is the one that holds myths the first agent does not
FocusAgents == {1}

\* the retention of the inserts whose rank inside a memory is not looked at
ConcRetentions == {MaxRetention}

\* arguments of insert_agent_myth_safe: any myth id, agent id and retention
\* for the first agent and the unknown agent, one retention for the other agent
SeqInsertInputs ==
    {t \in MythInputs \X AgentInputs \X RetentionInputs :
        t[2] \in AgentIds \ FocusAgents => t[3] \in ConcRetentions}

\* agent ids passed to update_retentions_and_reorder: the first agent and the
\* unknown agent
BulkAgentInputs == AgentInputs \ (AgentIds \ FocusAgents)

Next ==
    /\ \E p \in SeqProcs :
        \/ \E t \in SeqInsertInputs : InsertCall(p, t[1], t[2], t[3])
        \/ InsertLock(p)
        \/ InsertCheck(p)
        \/ InsertWrite(p)
        \/ \E a \in BulkAgentInputs, empty \in BOOLEAN : BulkCall(p, a, empty)
        \/ \E m \in MythInputs, r \in RetentionInputs : BulkUpdateRow(p, m, r)
        \/ BulkFinish(p)
        \/ \E a \in AgentInputs : Reindex(p, a)
        \/ Resume(p)
    /\ UNCHANGED otherTables

Spec == Init /\ [][Next]_vars


\* ---- one caller that also writes rows with insert_agent_myth ----
\* the positions passed to insert_agent_myth: the top of the memory and the
\* offset insert_agent_myth_safe shifts by
RawPositions == {0, PositionOffset}

\* the caller works on the memory of the first agent; insert_agent_myth_safe is
\* called with the retention ConcRetentions
NextRaw ==
    /\ \E p \in SeqProcs :
        \/ \E m \in Myths, a \in FocusAgents, pos \in RawPositions, r \in RetentionInputs :
              RawInsert(p, m, a, pos, r)
        \/ \E m \in Myths, a \in FocusAgents, r \in ConcRetentions : InsertCall(p, m, a, r)
        \/ InsertLock(p)
        \/ InsertCheck(p)
        \/ InsertWrite(p)
        \/ \E a \in FocusAgents : Reindex(p, a)
        \/ Resume(p)
    /\ UNCHANGED otherTables

SpecRaw == Init /\ [][NextRaw]_vars



\* ---- one caller that fills a memory and changes its size ----
\* the values written to agents.memory_size: one below the smallest allowed, up
\* to room for every myth
MemorySizeInputs == (MinMemorySize - 1)..MaxMyth

NextTrim ==
    /\ \E p \in SeqProcs :
        \/ \E m \in Myths, a \in FocusAgents, r \in Retentions : InsertCall(p, m, a, r)
        \/ InsertLock(p)
        \/ InsertCheck(p)
        \/ InsertWrite(p)
        \/ \E a \in BulkAgentInputs, size \in MemorySizeInputs : SetMemorySize(p, a, size)
        \/ Resume(p)
    /\ UNCHANGED otherTables

SpecTrim == Init /\ [][NextTrim]_vars


\* ---- one caller that fills an empty memory ----
\* insert_agent_myth_safe is called while the memory has room, in any order of
\* the myths and with any retention
NextFill ==
    /\ \E p \in SeqProcs :
        \/ \E m \in Myths, a \in FocusAgents, r \in Retentions :
              /\ CountOf(agent_myths, a) < agents[a]
              /\ InsertCall(p, m, a, r)
        \/ InsertLock(p)
        \/ InsertCheck(p)
        \/ InsertWrite(p)
        \/ Resume(p)
    /\ UNCHANGED otherTables

SpecFill == Init /\ [][NextFill]_vars


\* ---- one caller that inserts and rewrites retentions ----
\* every retention, zero included, is passed to insert_agent_myth_safe, to
\* update_retentions_and_reorder and to update_agent_myth_retention
NextRetention ==
    /\ \E p \in SeqProcs :
        \/ \E m \in Myths, a \in FocusAgents, r \in RetentionInputs : InsertCall(p, m, a, r)
        \/ InsertLock(p)
        \/ InsertCheck(p)
        \/ InsertWrite(p)
        \/ \E a \in FocusAgents : BulkCall(p, a, FALSE)
        \/ \E m \in Myths, r \in RetentionInputs : BulkUpdateRow(p, m, r)
        \/ BulkFinish(p)
        \/ \E a \in FocusAgents, m \in Myths, r \in RetentionInputs : UpdateRetention(p, a, m, r)
        \/ Resume(p)
    /\ UNCHANGED otherTables

SpecRetention == Init /\ [][NextRetention]_vars



\* ---- one caller that inserts and rewrites the retention of single rows ----
NextSingle ==
    /\ \E p \in SeqProcs :
        \/ \E m \in Myths, a \in FocusAgents, r \in Retentions : InsertCall(p, m, a, r)
        \/ InsertLock(p)
        \/ InsertCheck(p)
        \/ InsertWrite(p)
        \/ \E a \in FocusAgents, m \in Myths, r \in RetentionInputs : UpdateRetention(p, a, m, r)
        \/ \E a \in FocusAgents, m \in MythInputs, r \in RetentionInputs :
              UpdateMythWithRetention(p, a, m, r)
        \/ UpdateMythRecalculate(p)
        \/ Resume(p)
    /\ UNCHANGED otherTables

SpecSingle == Init /\ [][NextSingle]_vars


\* ---- one caller that works on a memory beside the memory of a neighbour ----
\* the table myths has one row more than the first agent is given, so that the
\* neighbour holds a myth while the memory of the first agent is full and takes
\* one more
NeighbourMyths == {MaxMyth, MaxMyth + 1}

InitNeighbour ==
    /\ agents = [a \in AgentIds |-> MinMemorySize]
    /\ myths = MythInputs
    /\ events = {}
    /\ epoch = 0
    /\ agent_myths = {}
    /\ agent_lock = [a \in AgentIds |-> NoProc]
    /\ pc = [p \in Procs |-> "idle"]
    /\ call = [p \in Procs |-> NoCall]
    /\ tx = [p \in Procs |-> NoWrites]

NextNeighbour ==
    /\ \E p \in SeqProcs :
        \/ \E m \in Myths, a \in FocusAgents, r \in Retentions : InsertCall(p, m, a, r)
        \/ \E m \in NeighbourMyths, a \in AgentIds \ FocusAgents, r \in ConcRetentions :
              InsertCall(p, m, a, r)
        \/ InsertLock(p)
        \/ InsertCheck(p)
        \/ InsertWrite(p)
        \/ \E a \in FocusAgents : BulkCall(p, a, FALSE)
        \/ \E m \in MythInputs, r \in Retentions : BulkUpdateRow(p, m, r)
        \/ BulkFinish(p)
        \/ \E a \in FocusAgents : Reindex(p, a)
        \/ Resume(p)
    /\ UNCHANGED otherTables

SpecNeighbour == InitNeighbour /\ [][NextNeighbour]_vars


\* ---- one caller that inserts with either function ----
NextSession ==
    /\ \E p \in SeqProcs :
        \/ \E m \in MythInputs, a \in BulkAgentInputs, r \in RetentionInputs :
              InsertCall(p, m, a, r)
        \/ InsertLock(p)
        \/ InsertCheck(p)
        \/ InsertWrite(p)
        \/ \E m \in MythInputs, a \in BulkAgentInputs, r \in RetentionInputs :
              SessionInsert(p, m, a, r)
        \/ Resume(p)
    /\ UNCHANGED otherTables

SpecSession == Init /\ [][NextSession]_vars

\* ---- one caller that fills memories and deletes myths and agents ----
NextCascade ==
    \/ /\ \E p \in SeqProcs :
            \/ \E m \in Myths, a \in AgentIds, r \in ConcRetentions : InsertCall(p, m, a, r)
            \/ InsertLock(p)
            \/ InsertCheck(p)
            \/ InsertWrite(p)
            \/ Resume(p)
       /\ UNCHANGED otherTables
    \/ \E p \in SeqProcs :
          \/ \E m \in Myths : DeleteMyth(p, m)
          \/ \E a \in AgentIds : DeleteAgent(p, a)

SpecCascade == Init /\ [][NextCascade]_vars


\* ---- the table events and the callers that work through it ----
NoEvent == 0

\* a row of events: id from the sequence, created_at from CURRENT_TIMESTAMP;
\* the inserts are made one after the other, each one's timestamp is later
\* than the one before
EventRow(id, created_at) ==
    [id |-> id, has_been_triggered |-> FALSE, created_at |-> created_at]

\* insert_event(description): INSERT ... VALUES (description, FALSE) RETURNING id;
\* commit. The events are inserted before any caller starts to work through them
InsertEvent(p) ==
    /\ pc[p] = "idle"
    /\ \A q \in Procs : call[q].op = "none"
    /\ Cardinality(events) < MaxEvents
    /\ events' = events \cup {EventRow(Cardinality(events) + 1, Cardinality(events) + 1)}
    /\ UNCHANGED <<agents, agent_myths, agent_lock, pc, call, tx, myths, epoch>>

\* SELECT ... WHERE has_been_triggered = FALSE ORDER BY created_at ASC LIMIT 1:
\* the id of the row, or None
next_event(evs) ==
    LET open == {e \in evs : ~ e.has_been_triggered}
    IN  IF open = {} THEN NoEvent
        ELSE (CHOOSE e \in open : \A f \in open : e.created_at <= f.created_at).id

\* variant: ORDER BY created_at DESC
next_event_latest(evs) ==
    LET open == {e \in evs : ~ e.has_been_triggered}
    IN  IF open = {} THEN NoEvent
        ELSE (CHOOSE e \in open : \A f \in open : e.created_at >= f.created_at).id

\* the caller's loop: the event it has in hand and the ids it was given so far
EventCallRecord(event, received) ==
    [op |-> "events", myth_id |-> 0, agent_id |-> 0, retention |-> 0, attempt |-> 0,
     cur_count |-> 0, evicted |-> {}, n |-> Len(received), outcome |-> "running",
     event |-> event, received |-> received]

ReceivedBy(p) == IF call[p].op = "events" THEN call[p].received ELSE << >>

\* variant: the query picks the latest event
GetNextEventLatest(p) ==
    /\ pc[p] = "idle"
    /\ LET e == next_event_latest(events)
       IN  IF e = NoEvent
              THEN /\ pc' = [pc EXCEPT ![p] = "done"]
                   /\ call' = [call EXCEPT ![p] = EventCallRecord(NoEvent, ReceivedBy(p))]
              ELSE /\ pc' = [pc EXCEPT ![p] = "got"]
                   /\ call' = [call EXCEPT ![p] =
                                  EventCallRecord(e, Append(ReceivedBy(p), e))]
    /\ UNCHANGED <<agents, agent_myths, agent_lock, tx, myths, events, epoch>>

\* event = get_next_event(); if event is None: break
GetNextEvent(p) ==
    /\ pc[p] = "idle"
    /\ LET e == next_event(events)
       IN  IF e = NoEvent
              THEN /\ pc' = [pc EXCEPT ![p] = "done"]
                   /\ call' = [call EXCEPT ![p] = EventCallRecord(NoEvent, ReceivedBy(p))]
              ELSE /\ pc' = [pc EXCEPT ![p] = "got"]
                   /\ call' = [call EXCEPT ![p] =
                                  EventCallRecord(e, Append(ReceivedBy(p), e))]
    /\ UNCHANGED <<agents, agent_myths, agent_lock, tx, myths, events, epoch>>

\* variant: the UPDATE has no WHERE clause
SetEventTriggeredAll(p) ==
    /\ pc[p] = "got"
    /\ pc' = [pc EXCEPT ![p] = "idle"]
    /\ events' = {[e EXCEPT !.has_been_triggered = TRUE] : e \in events}
    /\ call' = [call EXCEPT ![p].outcome =
                   IF \E e \in events : e.id = call[p].event THEN "ok" ELSE "not_found"]
    /\ UNCHANGED <<agents, agent_myths, agent_lock, tx, myths, epoch>>

\* success = set_event_triggered(event['id']): UPDATE events SET
\* has_been_triggered = TRUE WHERE id = ... RETURNING id; commit; True when a
\* row came back
SetEventTriggered(p) ==
    /\ pc[p] = "got"
    /\ pc' = [pc EXCEPT ![p] = "idle"]
    /\ events' = {IF e.id = call[p].event THEN [e EXCEPT !.has_been_triggered = TRUE] ELSE e :
                     e \in events}
    /\ call' = [call EXCEPT ![p].outcome =
                   IF \E e \in events : e.id = call[p].event THEN "ok" ELSE "not_found"]
    /\ UNCHANGED <<agents, agent_myths, agent_lock, tx, myths, epoch>>

NextEvents ==
    \E p \in ConcProcs :
        \/ InsertEvent(p)
        \/ GetNextEvent(p)
        \/ SetEventTriggered(p)

SpecEvents == Init /\ [][NextEvents]_vars

\* every caller that can take a step takes one in the end
SpecEventsFair == SpecEvents /\ WF_vars(NextEvents)


\* ---- the table epoch and the callers that increment it ----
\* the caller's loop of increment_epoch and get_current_epoch: the epoch read
\* inside increment_epoch, the value it returned, the value the get returned
\* and the number of increments made
EpochCallRecord(current, new_epoch, got, n) ==
    [op |-> "epoch", myth_id |-> 0, agent_id |-> 0, retention |-> 0, attempt |-> 0,
     cur_count |-> 0, evicted |-> {}, n |-> n, outcome |-> "running",
     current |-> current, new_epoch |-> new_epoch, got |-> got]

IncrementsBy(p) == IF call[p].op = "epoch" THEN call[p].n ELSE 0

\* increment_epoch, first part: current = get_current_epoch(), a SELECT in a
\* session of its own; new_epoch = current + 1
IncrementRead(p) ==
    /\ pc[p] = "idle"
    /\ IncrementsBy(p) < MaxIncrements
    /\ pc' = [pc EXCEPT ![p] = "increment"]
    /\ call' = [call EXCEPT ![p] = EpochCallRecord(epoch, epoch + 1, 0, IncrementsBy(p))]
    /\ UNCHANGED <<agents, agent_myths, agent_lock, tx, myths, events, epoch>>

\* increment_epoch, second part: UPDATE epoch SET current_epoch = :new_epoch;
\* commit; return new_epoch
IncrementWrite(p) ==
    /\ pc[p] = "increment"
    /\ epoch' = call[p].new_epoch
    /\ pc' = [pc EXCEPT ![p] = "incremented"]
    /\ call' = [call EXCEPT ![p].n = call[p].n + 1]
    /\ UNCHANGED <<agents, agent_myths, agent_lock, tx, myths, events>>

\* current_epoch = get_current_epoch(), right after increment_epoch has returned
GetCurrentEpoch(p) ==
    /\ pc[p] = "incremented"
    /\ pc' = [pc EXCEPT ![p] = "idle"]
    /\ call' = [call EXCEPT ![p].got = epoch]
    /\ UNCHANGED <<agents, agent_myths, agent_lock, tx, myths, events, epoch>>

NextEpoch ==
    \E p \in ConcProcs :
        \/ IncrementRead(p)
        \/ IncrementWrite(p)
        \/ GetCurrentEpoch(p)

SpecEpoch == Init /\ [][NextEpoch]_vars

\* ---- two callers, statement by statement, under READ COMMITTED ----
\* the memories when the two calls begin: the first agent has taken the myths
\* 1..MinMemorySize with insert_agent_myth_safe, the other agent has none
StartTable ==
    recalculate_positions({Row(m, 1, m - 1, MaxRetention) : m \in 1..MinMemorySize}, 1)

InitTx ==
    /\ agents = [a \in AgentIds |-> MinMemorySize]
    /\ myths = Myths
    /\ events = {}
    /\ epoch = 0
    /\ agent_myths = StartTable
    /\ agent_lock = [a \in AgentIds |-> NoProc]
    /\ pc = [p \in Procs |-> "idle"]
    /\ call = [p \in Procs |-> NoCall]
    /\ tx = [p \in Procs |-> NoWrites]

\* the myths of the rows the DELETE of the call removes
Victims(p) == {v.myth_id : v \in call[p].evicted}

\* the myths of the committed rows of agent a
MythsOf(tbl, a) == {row.myth_id : row \in RowsOf(tbl, a)}

\* the rows (by myth) the open transaction of p has written and keeps locked
\* until it ends: the retentions written by update_retentions_and_reorder; the
\* row deleted, the rows shifted and the row inserted by insert_agent_myth_safe
RowLocks(p) ==
    IF pc[p] = "bulk" THEN DOMAIN tx[p]
    ELSE IF pc[p] = "shift" THEN Victims(p)
    ELSE IF pc[p] = "insert"
       THEN Victims(p) \cup MythsOf(agent_myths, call[p].agent_id)
    ELSE IF pc[p] = "finish"
       THEN Victims(p) \cup MythsOf(agent_myths, call[p].agent_id) \cup {call[p].myth_id}
    ELSE {}

\* variant: the shift is UPDATE agent_myths SET position = position + 10000
\* with no WHERE clause
StatementRowsShiftAll(p) ==
    IF pc[p] = "delete" THEN Victims(p)
    ELSE IF pc[p] = "shift" THEN {row.myth_id : row \in agent_myths} \ Victims(p)
    ELSE IF pc[p] = "insert" THEN {call[p].myth_id}
    ELSE IF pc[p] = "bulk"
       THEN IF call[p].n < Len(call[p].pairs)
               THEN {call[p].pairs[call[p].n + 1][1]}
                       \cap MythsOf(agent_myths, call[p].agent_id)
               ELSE MythsOf(agent_myths, call[p].agent_id)
    ELSE {}

\* the rows (by myth) the next statement of p has to write, or, for the INSERT,
\* the key it has to find free
StatementRows(p) ==
    IF pc[p] = "delete" THEN Victims(p)
    ELSE IF pc[p] = "shift" THEN MythsOf(agent_myths, call[p].agent_id) \ Victims(p)
    ELSE IF pc[p] = "insert" THEN {call[p].myth_id}
    ELSE IF pc[p] = "bulk"
       THEN IF call[p].n < Len(call[p].pairs)
               THEN {call[p].pairs[call[p].n + 1][1]}
                       \cap MythsOf(agent_myths, call[p].agent_id)
               ELSE MythsOf(agent_myths, call[p].agent_id)
    ELSE {}

\* the next statement of p waits for the transaction of q to end
WaitsFor(p, q) == p # q /\ StatementRows(p) \cap RowLocks(q) # {}

Blocked(p) == \E q \in Procs : WaitsFor(p, q)

\* the subquery of the DELETE at the memory size limit, read from the snapshot
\* of the statement: the row of the agent with the highest position
EvictSelect(p) ==
    /\ pc[p] = "write"
    /\ LET a == call[p].agent_id
           rows == RowsOf(agent_myths, a)
       IN  IF call[p].cur_count >= agents[a]
              THEN /\ pc' = [pc EXCEPT ![p] = "delete"]
                   /\ call' = [call EXCEPT ![p].evicted =
                                 {x \in rows : \A y \in rows : y.position <= x.position}]
              ELSE /\ pc' = [pc EXCEPT ![p] = "shift"]
                   /\ call' = call
    /\ UNCHANGED <<agents, agent_myths, agent_lock, tx>>

\* DELETE FROM agent_myths WHERE myth_id = (the myth the subquery gave): waits
\* while another transaction has the row locked, then removes its latest version
EvictDelete(p) ==
    /\ pc[p] = "delete"
    /\ ~ Blocked(p)
    /\ pc' = [pc EXCEPT ![p] = "shift"]
    /\ UNCHANGED <<agents, agent_myths, agent_lock, call, tx>>


\* variant: the connection is in autocommit mode, each statement is committed
\* as it completes
ShiftUpAutocommit(p) ==
    /\ pc[p] = "shift"
    /\ ~ Blocked(p)
    /\ pc' = [pc EXCEPT ![p] = "insert"]
    /\ agent_myths' = ShiftPositionsUp({row \in agent_myths : row.myth_id \notin Victims(p)},
                                       call[p].agent_id)
    /\ UNCHANGED <<agents, agent_lock, call, tx>>

\* UPDATE agent_myths SET position = position + 10000 WHERE agent_id = a
ShiftUp(p) ==
    /\ pc[p] = "shift"
    /\ ~ Blocked(p)
    /\ pc' = [pc EXCEPT ![p] = "insert"]
    /\ UNCHANGED <<agents, agent_myths, agent_lock, call, tx>>

\* the end of an attempt that raised: the transaction is rolled back, and the
\* except clause retries or returns False
AttemptRaised(p, outcome) ==
    /\ agent_lock' = [agent_lock EXCEPT ![call[p].agent_id] = NoProc]
    /\ agent_myths' = agent_myths
    /\ IF outcome \in DuplicateKeyErrors /\ call[p].attempt < max_retries - 1
          THEN /\ pc' = [pc EXCEPT ![p] = "lock"]
               /\ call' = [call EXCEPT ![p] = [RetryAfterBackoff(call[p]) EXCEPT !.evicted = {}]]
          ELSE /\ pc' = [pc EXCEPT ![p] = "returned"]
               /\ call' = [call EXCEPT ![p].outcome = "error", ![p].evicted = {}]

\* variant: the rows deleted so far are committed before the error is handled
InsertRowCommitOnError(p) ==
    /\ pc[p] = "insert"
    /\ ~ Blocked(p)
    /\ IF UniqueViolation(agent_myths, call[p].myth_id)
          THEN /\ agent_lock' = [agent_lock EXCEPT ![call[p].agent_id] = NoProc]
               /\ agent_myths' = {row \in agent_myths : row.myth_id \notin Victims(p)}
               /\ IF call[p].attempt < max_retries - 1
                     THEN /\ pc' = [pc EXCEPT ![p] = "lock"]
                          /\ call' = [call EXCEPT ![p] = [RetryAfterBackoff(call[p]) EXCEPT !.evicted = {}]]
                     ELSE /\ pc' = [pc EXCEPT ![p] = "returned"]
                          /\ call' = [call EXCEPT ![p].outcome = "error", ![p].evicted = {}]
          ELSE /\ pc' = [pc EXCEPT ![p] = "finish"]
               /\ UNCHANGED <<agent_myths, agent_lock, call>>
    /\ UNCHANGED <<agents, tx>>

\* INSERT INTO agent_myths ... VALUES (m, a, 0, r): waits while another open
\* transaction has written a row of the myth, then raises the duplicate key when
\* the myth is committed
InsertRow(p) ==
    /\ pc[p] = "insert"
    /\ ~ Blocked(p)
    /\ IF UniqueViolation(agent_myths, call[p].myth_id)
          THEN AttemptRaised(p, "duplicate_key")
          ELSE /\ pc' = [pc EXCEPT ![p] = "finish"]
               /\ UNCHANGED <<agent_myths, agent_lock, call>>
    /\ UNCHANGED <<agents, tx>>

\* the shift back, the two-step reorder and the commit, on the rows the
\* transaction has locked since its shift
ReorderCommit(p) ==
    /\ pc[p] = "finish"
    /\ \E res \in InsertAttempt({row \in agent_myths : row.myth_id \notin Victims(p)},
                                0, agents[call[p].agent_id],
                                call[p].myth_id, call[p].agent_id, call[p].retention) :
          IF res.outcome = "ok"
             THEN /\ agent_myths' = res.table
                  /\ agent_lock' = [agent_lock EXCEPT ![call[p].agent_id] = NoProc]
                  /\ pc' = [pc EXCEPT ![p] = "returned"]
                  /\ call' = [call EXCEPT ![p].outcome = "ok",
                                          ![p].evicted = RemovedRows(agent_myths, res.table)]
             ELSE AttemptRaised(p, res.outcome)
    /\ UNCHANGED <<agents, tx>>


\* update_retentions_and_reorder(a, pairs) with its list of pairs
BulkPairsCallRecord(a, pairs) ==
    [op |-> "bulk", myth_id |-> 0, agent_id |-> a, retention |-> 0, attempt |-> 0,
     cur_count |-> 0, evicted |-> {}, n |-> 0, outcome |-> "running", pairs |-> pairs]

\* the call with a list that is not empty opens its transaction
BulkCallPairs(p, a, pairs) ==
    /\ pc[p] = "idle"
    /\ pairs # << >>
    /\ pc' = [pc EXCEPT ![p] = "bulk"]
    /\ call' = [call EXCEPT ![p] = BulkPairsCallRecord(a, pairs)]
    /\ tx' = [tx EXCEPT ![p] = NoWrites]
    /\ UNCHANGED <<agents, agent_myths, agent_lock>>

\* one turn of the loop: UPDATE ... SET retention = r WHERE myth_id = m AND
\* agent_id = a waits while another transaction has the row locked; no row
\* matched rolls back and returns False
BulkUpdatePair(p) ==
    /\ pc[p] = "bulk"
    /\ call[p].n < Len(call[p].pairs)
    /\ ~ Blocked(p)
    /\ LET a == call[p].agent_id
           m == call[p].pairs[call[p].n + 1][1]
           r == call[p].pairs[call[p].n + 1][2]
       IN  IF RowCount(TxView(agent_myths, a, tx[p]), m, a) = 0
              THEN /\ pc' = [pc EXCEPT ![p] = "returned"]
                   /\ call' = [call EXCEPT ![p].myth_id = m, ![p].outcome = "not_found"]
                   /\ tx' = [tx EXCEPT ![p] = NoWrites]
           ELSE IF RetentionCheckViolated(r)
              THEN /\ pc' = [pc EXCEPT ![p] = "returned"]
                   /\ call' = [call EXCEPT ![p].myth_id = m, ![p].outcome = "error"]
                   /\ tx' = [tx EXCEPT ![p] = NoWrites]
           ELSE /\ pc' = pc
                /\ call' = [call EXCEPT ![p].myth_id = m, ![p].n = call[p].n + 1]
                /\ tx' = [tx EXCEPT ![p] = WriteRetention(tx[p], m, r)]
    /\ UNCHANGED <<agents, agent_myths, agent_lock>>

\* after the last pair: SELECT recalculate_agent_myth_positions_by_retention(a),
\* which writes the rows of the agent and so waits for their locks; commit
BulkReorderCommit(p) ==
    /\ pc[p] = "bulk"
    /\ call[p].n = Len(call[p].pairs)
    /\ ~ Blocked(p)
    /\ LET a == call[p].agent_id
       IN  agent_myths' = recalculate_positions(TxView(agent_myths, a, tx[p]), a)
    /\ pc' = [pc EXCEPT ![p] = "returned"]
    /\ call' = [call EXCEPT ![p].outcome = "ok"]
    /\ tx' = [tx EXCEPT ![p] = NoWrites]
    /\ UNCHANGED <<agents, agent_lock>>

\* two transactions wait for each other: the storage raises "deadlock detected"
\* in the statement of one of them, and both functions catch it, roll back and
\* return False
DeadlockDetected(p) ==
    /\ \E q \in Procs : WaitsFor(p, q) /\ WaitsFor(q, p)
    /\ IF call[p].op = "bulk"
          THEN /\ pc' = [pc EXCEPT ![p] = "returned"]
               /\ call' = [call EXCEPT ![p].outcome = "error"]
               /\ tx' = [tx EXCEPT ![p] = NoWrites]
               /\ UNCHANGED <<agent_myths, agent_lock>>
          ELSE /\ AttemptRaised(p, "deadlock_detected")
               /\ tx' = tx
    /\ UNCHANGED agents



\* myth_ids, retentions = zip(*rows), each made a list; two empty lists when
\* the SELECT gave no row
ReadResult(s) ==
    <<[i \in DOMAIN s |-> s[i].myth_id], [i \in DOMAIN s |-> s[i].retention]>>

\* get_myth_ids_and_retention_from_agents_memory(a): the rows read, and (kept
\* for the properties) the callers whose transaction had written rows and was
\* still open at the read
ReadCallRecord(a, rows) ==
    [op |-> "read", myth_id |-> 0, agent_id |-> a, retention |-> 0, attempt |-> 0,
     cur_count |-> 0, evicted |-> {}, n |-> Cardinality(rows), outcome |-> "ok",
     rows |-> rows, open |-> {q \in Procs : RowLocks(q) # {}},
     result |-> ReadResult(OrderedByPosition(rows))]

\* variant: ORDER BY retention DESC, myth_id ASC
ReadOrderByRetention(p, a) ==
    /\ pc[p] = "idle"
    /\ pc' = [pc EXCEPT ![p] = "returned"]
    /\ call' = [call EXCEPT ![p] =
                   [ReadCallRecord(a, RowsOf(agent_myths, a)) EXCEPT !.result =
                       ReadResult(OrderedByPosition(
                           RowsOf(recalculate_positions(agent_myths, a), a)))]]
    /\ UNCHANGED <<agents, agent_myths, agent_lock, tx>>

\* SELECT myth_id, retention FROM agent_myths WHERE agent_id = a ORDER BY
\* position ASC: one statement, which reads the committed rows
Read(p, a) ==
    /\ pc[p] = "idle"
    /\ pc' = [pc EXCEPT ![p] = "returned"]
    /\ call' = [call EXCEPT ![p] = ReadCallRecord(a, RowsOf(agent_myths, a))]
    /\ UNCHANGED <<agents, agent_myths, agent_lock, tx>>

\* the caller of update_retentions_and_reorder and the caller of the reader
BulkProcs == {1}
ReadProcs == {2}

\* the retentions written by update_retentions_and_reorder: the lowest and
\* the highest
PairRetentions == {1, MaxRetention}

\* the lists of pairs passed to update_retentions_and_reorder: up to MaxPairs
\* pairs, each myth in one pair at most
BulkPairLists ==
    {pairs \in UNION {[1..k -> Myths \X PairRetentions] : k \in 1..MaxPairs} :
        \A i, j \in DOMAIN pairs : i # j => pairs[i][1] # pairs[j][1]}

\* each caller makes one call
NextTx ==
    /\ \E p \in ConcProcs :
        \/ \E m \in Myths, a \in AgentIds, r \in ConcRetentions : InsertCall(p, m, a, r)
        \/ InsertLock(p)
        \/ InsertCheck(p)
        \/ EvictSelect(p)
        \/ EvictDelete(p)
        \/ ShiftUp(p)
        \/ InsertRow(p)
        \/ ReorderCommit(p)
        \/ p \in BulkProcs /\ pc[p] = "idle"
              /\ \E pairs \in BulkPairLists : \E a \in FocusAgents : BulkCallPairs(p, a, pairs)
        \/ BulkUpdatePair(p)
        \/ BulkReorderCommit(p)
        \/ DeadlockDetected(p)
        \/ p \in ReadProcs /\ \E a \in AgentIds : Read(p, a)
    /\ UNCHANGED otherTables

SpecTx == InitTx /\ [][NextTx]_vars

\* ---- the same callers, scheduled fairly ----
\* a step of a call that is under way
TxStep(p) ==
    /\ \/ InsertLock(p)
       \/ InsertCheck(p)
       \/ EvictSelect(p)
       \/ EvictDelete(p)
       \/ ShiftUp(p)
       \/ InsertRow(p)
       \/ ReorderCommit(p)
       \/ BulkUpdatePair(p)
       \/ BulkReorderCommit(p)
       \/ DeadlockDetected(p)
    /\ UNCHANGED otherTables

\* a call that can take a step takes one: a transaction that holds a lock goes
\* on to its end, and the storage's deadlock detection runs
SpecTxFair == SpecTx /\ \A p \in ConcProcs : WF_vars(TxStep(p))



\* ---- one caller that writes rows and reads memories ----
\* rows are written by insert_agent_myth at positions of the caller's choice
\* and by insert_agent_myth_safe; the memory of every agent id is read
NextRead ==
    /\ \E p \in SeqProcs :
        \/ \E m \in Myths, a \in FocusAgents, pos \in RawPositions, r \in Retentions :
              RawInsert(p, m, a, pos, r)
        \/ \E m \in Myths, a \in FocusAgents, r \in ConcRetentions : InsertCall(p, m, a, r)
        \/ InsertLock(p)
        \/ InsertCheck(p)
        \/ InsertWrite(p)
        \/ \E a \in AgentInputs : Read(p, a)
        \/ Resume(p)
    /\ UNCHANGED otherTables

SpecRead == Init /\ [][NextRead]_vars

\* ---- the calls run one after the other ----
\* insert_agent_myth_safe(m, a, r) run alone on the table tbl
SafeInsertResult(tbl, m, a, r) ==
    IF RetentionCheckViolated(r) \/ a \notin DOMAIN agents \/ MythAssigned(tbl, m)
       THEN tbl
    ELSE LET res == InsertAttempt(tbl, CountOf(tbl, a), agents[a], m, a, r)
         IN  IF \E x \in res : x.outcome = "ok"
                THEN (CHOOSE x \in res : x.outcome = "ok").table
                ELSE tbl


\* the value insert_agent_myth_safe(m, a, r) returns when run alone on tbl
SafeInsertReturn(tbl, m, a, r) ==
    /\ ~ RetentionCheckViolated(r)
    /\ a \in DOMAIN agents
    /\ ~ MythAssigned(tbl, m)
    /\ \E x \in InsertAttempt(tbl, CountOf(tbl, a), agents[a], m, a, r) : x.outcome = "ok"

\* update_retentions_and_reorder(a, pairs) run alone on the table tbl
BulkResult(tbl, a, pairs) ==
    IF \E i \in DOMAIN pairs :
          RowCount(tbl, pairs[i][1], a) = 0 \/ RetentionCheckViolated(pairs[i][2])
       THEN tbl
    ELSE LET last(m) == CHOOSE i \in DOMAIN pairs :
                            /\ pairs[i][1] = m
                            /\ \A j \in DOMAIN pairs : pairs[j][1] = m => j <= i
             w == [m \in {pairs[i][1] : i \in DOMAIN pairs} |-> pairs[last(m)][2]]
         IN  recalculate_positions(TxView(tbl, a, w), a)

\* the call with the record c run alone on the table tbl
CallResult(tbl, c) ==
    IF c.op = "insert" THEN SafeInsertResult(tbl, c.myth_id, c.agent_id, c.retention)
    ELSE IF c.op = "bulk" THEN BulkResult(tbl, c.agent_id, c.pairs)
    ELSE tbl

\* ---- concurrent callers of insert_agent_myth_safe ----
\* the callers insert existing myths into existing agents, all with the
\* retention ConcRetentions
NextConc ==
    /\ \E p \in ConcProcs :
        \/ \E m \in Myths, a \in AgentIds, r \in ConcRetentions : InsertCall(p, m, a, r)
        \/ InsertLock(p)
        \/ InsertCheck(p)
        \/ InsertWrite(p)
        \/ Resume(p)
    /\ UNCHANGED otherTables

SpecConc == Init /\ [][NextConc]_vars

\* ---- properties ----

\* C1: for every agent, the positions of its n committed rows are exactly
\* 0, 1, ..., n-1: no position is missing and none is held twice
RankContiguity ==
    \A a \in AgentIds :
        LET rows == RowsOf(agent_myths, a)
        IN  /\ {row.position : row \in rows} = 0..(Cardinality(rows) - 1)
            /\ \A x, y \in rows : x.position = y.position => x = y

\* an insert has evicted at the memory size limit and a position above 0 is in use
RankContiguityWitness ==
    \E p \in SeqProcs :
        /\ pc[p] = "returned"
        /\ call[p].op = "insert"
        /\ call[p].outcome = "ok"
        /\ call[p].evicted # {}
        /\ CountOf(agent_myths, call[p].agent_id) = agents[call[p].agent_id]

ItemUniqueness ==
    \A x, y \in agent_myths : x.myth_id = y.myth_id => x = y

\* a caller lost the race for a myth: its INSERT hit the duplicate key and the
\* myth is in the memory of the other agent
ItemUniquenessWitness ==
    \E p \in ConcProcs :
        /\ call[p].attempt >= 1
        /\ \E row \in agent_myths :
              row.myth_id = call[p].myth_id /\ row.agent_id # call[p].agent_id

\* C4: no agent has more committed rows than its memory_size
CapacityBound ==
    \A a \in AgentIds : CountOf(agent_myths, a) <= agents[a]

\* an agent is full, one caller holds its lock inside an insert and the other
\* caller waits for the lock with an insert into the same agent
CapacityBoundWitness ==
    \E a \in AgentIds, p, q \in ConcProcs :
        /\ p # q
        /\ CountOf(agent_myths, a) = agents[a]
        /\ agent_lock[a] = p
        /\ pc[p] = "write"
        /\ pc[q] = "lock"
        /\ call[q].agent_id = a

InvalidRetentionNoEffect ==
    /\ [](\A p \in Procs :
            pc[p] \in {"lock", "check", "write"} => call[p].retention > 0)
    /\ [][\A p \in Procs :
            (/\ pc[p] = "idle"
             /\ call'[p] # call[p]
             /\ call'[p].op = "insert"
             /\ call'[p].retention <= 0)
            => /\ pc'[p] = "returned"
               /\ call'[p].outcome = "invalid_retention"
               /\ agent_myths' = agent_myths
               /\ agent_lock' = agent_lock
               /\ tx' = tx
       ]_vars

\* an insert with retention 0 has been rejected while the target agent holds rows
InvalidRetentionNoEffectWitness ==
    \E p \in SeqProcs :
        /\ pc[p] = "returned"
        /\ call[p].op = "insert"
        /\ call[p].retention <= 0
        /\ call[p].outcome = "invalid_retention"
        /\ CountOf(agent_myths, call[p].agent_id) >= 1

\* C8: when the check inside the transaction finds the myth in a committed row,
\* of the same agent or of another, the call returns False from that attempt,
\* without another attempt, and the committed rows stay as they are
AssignedMythRejected ==
    [][\A p \in Procs :
          (/\ pc[p] = "check"
           /\ pc'[p] # "check"
           /\ \E row \in agent_myths : row.myth_id = call[p].myth_id)
          => /\ pc'[p] = "returned"
             /\ call'[p].outcome = "already_assigned"
             /\ call'[p].attempt = call[p].attempt
             /\ agent_myths' = agent_myths
      ]_vars

\* a caller has been rejected for a myth that another agent holds, on the
\* attempt that followed a duplicate key
AssignedMythRejectedWitness ==
    \E p \in ConcProcs :
        /\ pc[p] = "returned"
        /\ call[p].outcome = "already_assigned"
        /\ call[p].attempt >= 1
        /\ \E row \in agent_myths :
              row.myth_id = call[p].myth_id /\ row.agent_id # call[p].agent_id

\* C9: an insert into an agent id that is in no row of agents returns False on
\* its first attempt and leaves the committed rows and the locks as they are
UnknownAgentRejected ==
    [][\A p \in Procs :
          (/\ pc[p] = "lock"
           /\ call[p].agent_id \notin DOMAIN agents
           /\ <<pc'[p], call'[p]>> # <<pc[p], call[p]>>)
          => /\ pc'[p] = "returned"
             /\ call'[p].outcome = "agent_not_found"
             /\ call'[p].attempt = 0
             /\ agent_myths' = agent_myths
             /\ agent_lock' = agent_lock
      ]_vars

\* an insert into the unknown agent has returned False while the table holds rows
UnknownAgentRejectedWitness ==
    \E p \in SeqProcs :
        /\ pc[p] = "returned"
        /\ call[p].op = "insert"
        /\ call[p].agent_id \notin DOMAIN agents
        /\ call[p].outcome = "agent_not_found"
        /\ call[p].attempt = 0
        /\ agent_myths # {}

\* C10: when a pair of a bulk update names a myth that is in no row of the
\* target agent, the call returns False, the committed rows of every agent keep
\* their retention and position, and the writes made for the earlier pairs are
\* dropped; outside a bulk update no uncommitted write is left
BulkUpdateAllOrNothing ==
    /\ [](\A p \in Procs : pc[p] # "bulk" => tx[p] = NoWrites)
    /\ [][\A p \in Procs :
            (/\ pc[p] = "bulk"
             /\ call'[p] # call[p]
             /\ call'[p].outcome # "ok"
             /\ \A row \in agent_myths :
                   ~ (row.myth_id = call'[p].myth_id /\ row.agent_id = call[p].agent_id))
            => /\ pc'[p] = "returned"
               /\ call'[p].outcome \in {"not_found", "error"}
               /\ agent_myths' = agent_myths
               /\ tx'[p] = NoWrites
       ]_vars

\* a bulk update has failed on a myth of another agent after a pair that had
\* changed the retention of a row of the target agent
BulkUpdateAllOrNothingWitness ==
    \E p \in SeqProcs :
        /\ pc[p] = "returned"
        /\ call[p].op = "bulk"
        /\ call[p].outcome = "not_found"
        /\ call[p].n >= 1
        /\ \E row \in agent_myths :
              row.myth_id = call[p].myth_id /\ row.agent_id # call[p].agent_id

\* C11: a bulk update that returns True leaves every listed myth with the
\* retention the list gave it last and every other row with the retention it
\* had, keeps the agent's set of myth ids and its count, and leaves the agent's
\* positions 0..n-1 in the order of the ranking policy over the new retentions
BulkUpdateApplied ==
    [][\A p \in Procs :
          LET a == call[p].agent_id
              before == RowsOf(agent_myths, a)
              after == RowsOf(agent_myths', a)
          IN  (/\ pc[p] = "bulk"
               /\ pc'[p] = "returned"
               /\ call'[p].outcome = "ok")
              => /\ {x.myth_id : x \in after} = {x.myth_id : x \in before}
                 /\ Cardinality(after) = Cardinality(before)
                 /\ \A x \in after :
                       IF x.myth_id \in DOMAIN tx[p]
                          THEN x.retention = tx[p][x.myth_id]
                          ELSE \E y \in before :
                                  y.myth_id = x.myth_id /\ y.retention = x.retention
                 /\ {x.position : x \in after} = 0..(Cardinality(after) - 1)
                 /\ \A x, y \in after :
                       (x.position < y.position) <=> RetentionOrderBefore(x, y)
      ]_vars

\* a bulk update of two pairs has returned True for an agent with a full
\* memory whose rows are not all of one retention
BulkUpdateAppliedWitness ==
    \E p \in SeqProcs :
        /\ pc[p] = "returned"
        /\ call[p].op = "bulk"
        /\ call[p].outcome = "ok"
        /\ call[p].n >= 2
        /\ CountOf(agent_myths, call[p].agent_id) = agents[call[p].agent_id]
        /\ \E x, y \in RowsOf(agent_myths, call[p].agent_id) : x.retention # y.retention

\* C12: a bulk update that returns in the step of its call, which is the call
\* with the empty list, returns True for every agent id, known or not, and
\* changes no row, no lock and no agent
EmptyBulkUpdateNoOp ==
    [][\A p \in Procs :
          (/\ pc[p] = "idle"
           /\ pc'[p] = "returned"
           /\ call'[p].op = "bulk")
          => /\ call'[p].outcome = "ok"
             /\ call'[p].n = 0
             /\ agent_myths' = agent_myths
             /\ agent_lock' = agent_lock
             /\ agents' = agents
             /\ tx'[p] = NoWrites
      ]_vars

\* the empty list has been accepted for the agent id no agent has, while the
\* table holds rows
EmptyBulkUpdateNoOpWitness ==
    \E p \in SeqProcs :
        /\ pc[p] = "returned"
        /\ call[p].op = "bulk"
        /\ call[p].outcome = "ok"
        /\ call[p].n = 0
        /\ call[p].agent_id \notin DOMAIN agents
        /\ agent_myths # {}

\* C13: an insert call makes at most max_retries attempts (the attempts are
\* numbered from 0), and when the attempt numbered max_retries - 1 ends in the
\* duplicate key on myth_id, as every attempt before it did, the call returns
\* False and the committed rows are as they were
BoundedRetry ==
    /\ [](\A p \in Procs : call[p].attempt <= max_retries - 1)
    /\ [][\A p \in Procs :
            (/\ pc[p] = "write"
             /\ pc'[p] # "write"
             /\ call[p].attempt = max_retries - 1
             /\ UniqueViolation(agent_myths, call[p].myth_id))
            => /\ pc'[p] = "returned"
               /\ call'[p].outcome = "error"
               /\ call'[p].attempt = max_retries - 1
               /\ agent_myths' = agent_myths
       ]_vars

\* a call has returned False from its last allowed attempt and the myth it lost
\* every race for is in the memory of the other agent
BoundedRetryWitness ==
    \E p \in ConcProcs :
        /\ pc[p] = "returned"
        /\ call[p].outcome = "error"
        /\ call[p].attempt = max_retries - 1
        /\ \E row \in agent_myths :
              row.myth_id = call[p].myth_id /\ row.agent_id # call[p].agent_id

\* C19: the lock on an agent row is held only by an insert call that is between
\* its SELECT ... FOR UPDATE and the end of the same attempt, and for its own
\* agent; a call that has returned (with any result) or waits to retry holds no
\* lock, and the step that ends an attempt leaves the agent row unlocked
LockDiscipline ==
    /\ [](\A a \in AgentIds :
            agent_lock[a] # NoProc
            => /\ pc[agent_lock[a]] \in {"check", "write"}
               /\ call[agent_lock[a]].agent_id = a)
    /\ [](\A p \in Procs :
            pc[p] \in {"idle", "returned", "lock"}
            => \A a \in AgentIds : agent_lock[a] # p)
    /\ [][\A p \in Procs :
            (pc[p] \in {"check", "write"} /\ pc'[p] \in {"returned", "lock"})
            => agent_lock'[call[p].agent_id] = NoProc
       ]_vars

\* one caller has returned without inserting (assigned myth, or retries used
\* up) and the other caller has since taken the lock on the same agent
LockDisciplineWitness ==
    \E p, q \in ConcProcs :
        /\ p # q
        /\ pc[p] = "returned"
        /\ call[p].outcome \in {"already_assigned", "error"}
        /\ call[p].attempt >= 1
        /\ pc[q] = "write"
        /\ call[q].agent_id = call[p].agent_id
        /\ agent_lock[call[p].agent_id] = q

\* C14: an attempt of insert_agent_myth_safe is followed by another attempt
\* only when it failed because the myth had been committed to a memory since
\* its check (the race on UNIQUE (myth_id)); an attempt that fails on anything
\* else, a taken position among them, ends the call with False at once
SelectiveRetry ==
    [][\A p \in Procs :
          (pc[p] = "write" /\ pc'[p] # "write" /\ call'[p].outcome # "ok")
          => IF UniqueViolation(agent_myths, call[p].myth_id)
                THEN pc'[p] \in {"lock", "returned"}
                ELSE /\ pc'[p] = "returned"
                     /\ call'[p].attempt = call[p].attempt
      ]_vars

\* C20: in the state a reindex of an agent leaves behind, a second reindex of
\* the same agent changes nothing: every row keeps its position, its retention
\* and its agent, and no row is added or removed
ReindexIdempotent ==
    [][\A p \in Procs :
          (pc[p] = "idle" /\ pc'[p] = "returned" /\ call'[p].op = "reindex")
          => recalculate_positions(agent_myths', call'[p].agent_id) = agent_myths'
      ]_vars

\* a reindex has returned that gave new positions to at least two rows of a
\* memory with rows of equal and of different retention
ReindexIdempotentWitness ==
    \E p \in SeqProcs :
        /\ pc[p] = "returned"
        /\ call[p].op = "reindex"
        /\ call[p].n >= 2
        /\ \E x, y, z \in RowsOf(agent_myths, call[p].agent_id) :
              /\ x.myth_id # y.myth_id
              /\ x.retention = y.retention
              /\ z.retention # x.retention

\* C16: when two mutating calls on the same agent (insert_agent_myth_safe,
\* update_retentions_and_reorder) have run at the same time and both have
\* returned, the committed rows are those that running the one call and then
\* the other, in one of the two orders, leaves behind
SameOwnerSerialized ==
    \A p, q \in ConcProcs :
        (/\ p # q
         /\ pc[p] = "returned" /\ pc[q] = "returned"
         /\ call[p].op \in {"insert", "bulk"} /\ call[q].op \in {"insert", "bulk"}
         /\ call[p].agent_id = call[q].agent_id)
        => \/ agent_myths = CallResult(CallResult(StartTable, call[p]), call[q])
           \/ agent_myths = CallResult(CallResult(StartTable, call[q]), call[p])

\* C15: when two callers insert the same myth into the memories of two
\* different agents at the same time, at most one of the calls returns True,
\* the myth is then in the memory of the agent of that call only, and the
\* memory of the agent of a call that has not succeeded is row for row what it
\* was before the calls (no row evicted, no position changed)
SameItemRace ==
    \A p, q \in ConcProcs :
        (/\ p # q
         /\ call[p].op = "insert" /\ call[q].op = "insert"
         /\ call[p].myth_id = call[q].myth_id
         /\ call[p].agent_id # call[q].agent_id)
        => /\ ~ (call[p].outcome = "ok" /\ call[q].outcome = "ok")
           /\ call[p].outcome = "ok"
              => /\ call[p].myth_id \in MythsOf(agent_myths, call[p].agent_id)
                 /\ call[p].myth_id \notin MythsOf(agent_myths, call[q].agent_id)
           /\ call[p].outcome # "ok"
              => RowsOf(agent_myths, call[p].agent_id) = RowsOf(StartTable, call[p].agent_id)

\* the call into the full memory got as far as its INSERT, met the duplicate
\* key, and has returned False from its next attempt; the other call has
\* returned True
SameItemRaceWitness ==
    \E p, q \in ConcProcs :
        /\ pc[p] = "returned" /\ pc[q] = "returned"
        /\ call[p].op = "insert" /\ call[q].op = "insert"
        /\ call[p].myth_id = call[q].myth_id
        /\ call[p].agent_id # call[q].agent_id
        /\ CountOf(StartTable, call[p].agent_id) = agents[call[p].agent_id]
        /\ call[p].attempt >= 1
        /\ call[p].outcome = "already_assigned"
        /\ call[q].outcome = "ok"

\* C17 (as claimed): a mutating call on one agent never waits for the end of
\* the transaction of a mutating call on another agent, neither for the lock
\* on the agent row nor in any later statement
CrossOwnerNeverWaits ==
    \A p, q \in ConcProcs :
        (/\ p # q
         /\ call[p].op \in {"insert", "bulk"} /\ call[q].op \in {"insert", "bulk"}
         /\ call[p].agent_id # call[q].agent_id)
        => /\ ~ WaitsFor(p, q)
           /\ ~ (pc[p] = "lock" /\ agent_lock[call[p].agent_id] = q)

\* C17 (amended): a mutating call on one agent waits for a mutating call on
\* another agent in one statement only, the INSERT of insert_agent_myth_safe,
\* and only while the other transaction has written a row of the same myth and
\* not ended; it never waits for the lock on another agent's row
CrossOwnerWaitsOnlyAtInsert ==
    \A p, q \in ConcProcs :
        (/\ p # q
         /\ call[p].op \in {"insert", "bulk"} /\ call[q].op \in {"insert", "bulk"}
         /\ call[p].agent_id # call[q].agent_id)
        => /\ WaitsFor(p, q)
              => /\ call[p].op = "insert"
                 /\ pc[p] = "insert"
                 /\ call[p].myth_id \in RowLocks(q)
           /\ ~ (pc[p] = "lock" /\ agent_lock[call[p].agent_id] = q)

\* one insert is at its INSERT while the insert of the same myth into the
\* other agent's memory has written its row and not committed; the other agent
\* holds its own lock, and the first call has taken its own
CrossOwnerWaitsOnlyAtInsertWitness ==
    \E p, q \in ConcProcs :
        /\ call[p].op = "insert" /\ call[q].op = "insert"
        /\ call[p].agent_id # call[q].agent_id
        /\ pc[p] = "insert" /\ pc[q] = "finish"
        /\ WaitsFor(p, q)
        /\ agent_lock[call[p].agent_id] = p
        /\ agent_lock[call[q].agent_id] = q

FailedInsertAtomic ==
    [][\A p \in Procs :
          (pc[p] = "write" /\ call'[p].outcome # "ok")
          => /\ agent_myths' = agent_myths
             /\ agent_myths \ EvictHighestPosition(agent_myths, call[p].agent_id)
                   \subseteq agent_myths'
             /\ pc'[p] = "returned" => call'[p].outcome = "error"
      ]_vars

\* an insert of a myth that does not exist into a full memory has returned
\* False: its attempt had deleted the last row before the INSERT raised
FailedInsertAtomicWitness ==
    \E p \in SeqProcs :
        /\ pc[p] = "returned"
        /\ call[p].op = "insert"
        /\ call[p].outcome = "error"
        /\ call[p].myth_id \notin Myths
        /\ call[p].agent_id \in DOMAIN agents
        /\ call[p].cur_count >= agents[call[p].agent_id]
        /\ CountOf(agent_myths, call[p].agent_id) = call[p].cur_count

RetentionPositive ==
    /\ [](\A row \in agent_myths : row.retention > 0)
    /\ [][\A p \in Procs :
             (/\ pc[p] # "returned" /\ pc'[p] = "returned"
              /\ \/ call'[p].op \in {"insert", "update_retention"} /\ call'[p].retention <= 0
                 \/ call'[p].op = "bulk" /\ call'[p].outcome = "error")
             => /\ agent_myths' = agent_myths
                /\ tx'[p] = NoWrites
                /\ call'[p].outcome \notin {"ok", "running"}
         ]_vars

\* a bulk update was rejected at a pair with retention zero for a row of the
\* agent, after it had written another pair
RetentionPositiveWitness ==
    \E p \in SeqProcs :
        /\ pc[p] = "returned"
        /\ call[p].op = "bulk"
        /\ call[p].outcome = "error"
        /\ call[p].retention <= 0
        /\ call[p].n >= 1
        /\ RowCount(agent_myths, call[p].myth_id, call[p].agent_id) = 1

\* C25: get_myth_ids_and_retention_from_agents_memory returns two lists of the
\* same length, one entry for each row of the agent; the i-th myth id and the
\* i-th retention are those of one row, and the rows follow each other by
\* ascending position; an agent without rows and an agent id that does not
\* exist give two empty lists; no table and no lock changes
OrderedEntriesQuery ==
    [][\A p \in Procs :
          (pc[p] = "idle" /\ pc'[p] = "returned" /\ call'[p].op = "read")
          => LET a == call'[p].agent_id
                 rows == RowsOf(agent_myths, a)
                 myth_ids == call'[p].result[1]
                 retentions == call'[p].result[2]
             IN  /\ Len(myth_ids) = Len(retentions)
                 /\ Len(myth_ids) = Cardinality(rows)
                 /\ \A i \in DOMAIN myth_ids : \E row \in rows :
                       /\ row.myth_id = myth_ids[i]
                       /\ row.retention = retentions[i]
                       /\ Cardinality({y \in rows : y.position < row.position}) = i - 1
                 /\ (rows = {} \/ a \notin DOMAIN agents)
                       => myth_ids = << >> /\ retentions = << >>
                 /\ UNCHANGED <<agents, agent_myths, agent_lock, tx>>
      ]_vars

\* a memory whose rows are not in the order of their retentions, with a gap in
\* the positions, has been read
OrderedEntriesQueryWitness ==
    \E p \in SeqProcs :
        /\ pc[p] = "returned"
        /\ call[p].op = "read"
        /\ Len(call[p].result[1]) >= 2
        /\ \E i \in DOMAIN call[p].result[2] :
              i > 1 /\ call[p].result[2][i] > call[p].result[2][1]
        /\ \E row \in call[p].rows : row.position >= PositionOffset

\* C26: the delete of a myth removes the row of the myth and the delete of an
\* agent removes every row of the agent; the rows of the other agents do not
\* change, and the rows that stay in the memory the delete took a row from
\* have the positions 0..n-1
CascadeKeepsInvariants ==
    [][\A p \in Procs :
          (pc[p] = "idle" /\ pc'[p] = "returned"
           /\ call'[p].op \in {"delete_myth", "delete_agent"})
          => LET gone == IF call'[p].op = "delete_myth"
                            THEN {row \in agent_myths : row.myth_id = call'[p].myth_id}
                            ELSE RowsOf(agent_myths, call'[p].agent_id)
             IN  /\ agent_myths' \cap gone = {}
                 /\ \A a \in AgentIds :
                       (\A row \in gone : row.agent_id # a)
                       => RowsOf(agent_myths', a) = RowsOf(agent_myths, a)
                 /\ \A row \in gone :
                       LET rest == RowsOf(agent_myths', row.agent_id)
                       IN  {x.position : x \in rest} = 0..(Cardinality(rest) - 1)
      ]_vars

\* C27: get_next_event gives the event that is not triggered and has the
\* earliest created_at, and None when every event is triggered; an event that
\* set_event_triggered has marked stays marked and is never given again; a
\* caller that works alone, get_next_event and set_event_triggered in turn, is
\* given every inserted event once, in the order of the inserts
EventQueueOrder ==
    /\ [][\A p \in Procs :
             (pc[p] = "idle" /\ pc'[p] \in {"got", "done"})
             => LET open == {e \in events : ~ e.has_been_triggered}
                    got == call'[p].event
                IN  /\ (got = NoEvent) <=> (open = {})
                    /\ got # NoEvent
                          => \E e \in open : /\ e.id = got
                                             /\ \A f \in open : e.created_at <= f.created_at
         ]_vars
    /\ [][\A e \in events : e.has_been_triggered
             => \E f \in events' : f.id = e.id /\ f.has_been_triggered]_vars
    /\ [](\A p, q \in ConcProcs :
             (p # q /\ call[q].op = "none" /\ call[p].op = "events")
             => LET s == call[p].received
                IN  /\ \A i, j \in DOMAIN s : i < j => s[i] < s[j]
                    /\ pc[p] = "done" => {s[i] : i \in DOMAIN s} = {e.id : e \in events})

\* a caller that worked alone has been given MaxEvents events and then None
EventQueueOrderWitness ==
    \E p, q \in ConcProcs :
        /\ p # q
        /\ call[q].op = "none"
        /\ pc[p] = "done"
        /\ call[p].op = "events"
        /\ Len(call[p].received) = MaxEvents

\* C28: callers that loop get_next_event and set_event_triggered side by side
\* over the events inserted before they began all come to the None that ends
\* the loop; a caller is given None only when every event is triggered, and
\* when all have ended, the ids given to them, taken together, are the ids of
\* the inserted events
ConcurrentEventsAllProcessed ==
    /\ [](\A p \in ConcProcs :
             pc[p] = "done" => \A e \in events : e.has_been_triggered)
    /\ []((\A p \in ConcProcs : pc[p] = "done")
             => UNION {{call[p].received[i] : i \in DOMAIN call[p].received} : p \in ConcProcs}
                   = {e.id : e \in events})
    /\ <>(\A p \in ConcProcs : pc[p] = "done")

\* all callers have ended after MaxEvents events; each was given events, and
\* one event was given to two of them
ConcurrentEventsAllProcessedWitness ==
    /\ Cardinality(events) = MaxEvents
    /\ \A p \in ConcProcs : pc[p] = "done" /\ Len(call[p].received) >= 1
    /\ \E p, q \in ConcProcs :
          /\ p # q
          /\ \E i \in DOMAIN call[p].received, j \in DOMAIN call[q].received :
                call[p].received[i] = call[q].received[j]
          /\ \E i \in DOMAIN call[p].received :
                \A j \in DOMAIN call[q].received : call[p].received[i] # call[q].received[j]

\* C29: increment_epoch makes the stored epoch one higher and returns the new
\* value; get_current_epoch called by the same caller right after returns that
\* value, whatever other callers increment meanwhile; after K calls of
\* increment_epoch in all, from epoch 0, the epoch is at least 1 and at most K
EpochIncrement ==
    /\ [][\A p \in ConcProcs :
             (pc[p] = "increment" /\ pc'[p] = "incremented")
             => epoch' = epoch + 1 /\ call'[p].new_epoch = epoch']_vars
    /\ [][\A p \in ConcProcs :
             (pc[p] = "incremented" /\ pc'[p] = "idle")
             => call'[p].got = call[p].new_epoch]_vars
    /\ [](LET K == IncrementsBy(1) + IncrementsBy(2)
          IN  K >= 1 => epoch >= 1 /\ epoch <= K)

\* no two rows of agent a have the same position in tbl
DistinctPositions(tbl, a) ==
    \A x, y \in RowsOf(tbl, a) : x.position = y.position => x = y

\* the attempt the caller p is about to make meets no position that is taken:
\* none of its statements raises on UNIQUE (agent_id, position), in whatever
\* order it visits the rows, and after each statement the positions of the
\* agent are distinct
NoCollisionInAttempt(p) ==
    LET c == call[p]
        steps == InsertSteps(agent_myths, c.cur_count, agents[c.agent_id],
                             c.myth_id, c.agent_id, c.retention)
    IN  /\ \A res \in InsertAttempt(agent_myths, c.cur_count, agents[c.agent_id],
                                    c.myth_id, c.agent_id, c.retention) :
              res.outcome # "duplicate_position"
        /\ \A i \in DOMAIN steps : DistinctPositions(steps[i], c.agent_id)

RanksDerivedNotChosen ==
    \A p \in Procs :
        pc[p] = "returned"
        => \A a \in DOMAIN agents : recalculate_positions(agent_myths, a) = agent_myths

\* C33: in every committed state, also between and after the steps of
\* update_agent_myth_retention and update_myth_with_retention, the positions of
\* every agent are those the ranking gives its retentions
RetentionUpdateKeepsOrder ==
    \A a \in DOMAIN agents : recalculate_positions(agent_myths, a) = agent_myths

\* C34: the rows of an agent change only in a step of an insert, a bulk update
\* or a reindex that was called for that agent: a call for agent a leaves
\* myth_id, retention and position of the rows of every other agent as they are
OtherOwnersUntouched ==
    [][\A b \in AgentIds :
          RowsOf(agent_myths', b) # RowsOf(agent_myths, b)
          => \E p \in Procs :
                /\ call'[p].agent_id = b
                /\ call'[p].op \in {"insert", "bulk", "reindex"}
                /\ pc[p] # "returned"
      ]_vars

\* an insert into the full memory of one agent has evicted and reordered while
\* the other agent holds rows
OtherOwnersUntouchedWitness ==
    \E p \in SeqProcs :
        /\ pc[p] = "returned"
        /\ call[p].op = "insert"
        /\ call[p].outcome = "ok"
        /\ call[p].evicted # {}
        /\ \E b \in AgentIds \ {call[p].agent_id} : CountOf(agent_myths, b) >= 1

\* C35: the waits of an insert call are 0.01 s * 2^k after the failed attempt k
\* that is retried, k = 0, 1, ...: one wait for each retry, each twice the one
\* before; the step that returns from the call, after the last allowed attempt
\* or after an error that is not retried, makes no wait
BackoffSchedule ==
    /\ [](\A p \in Procs :
            call[p].op = "insert"
            => /\ Len(call[p].slept) = call[p].attempt
               /\ \A k \in 1..Len(call[p].slept) :
                     /\ call[p].slept[k] = BackoffBase * 2^(k - 1)
                     /\ k > 1 => call[p].slept[k] = 2 * call[p].slept[k - 1])
    /\ [][\A p \in Procs :
            (call[p].op = "insert" /\ pc[p] # "returned" /\ pc'[p] = "returned")
            => call'[p].slept = call[p].slept
        ]_vars

\* a call has returned False from its last allowed attempt, after the waits of
\* 10, 20, 40 and 80 ms
BackoffScheduleWitness ==
    \E p \in ConcProcs :
        /\ pc[p] = "returned"
        /\ call[p].op = "insert"
        /\ call[p].outcome = "error"
        /\ call[p].attempt = max_retries - 1
        /\ call[p].slept = <<10, 20, 40, 80>>

\* the outcomes insert_agent_myth_safe returns with: True, or False for one of
\* its reasons
InsertOutcomes ==
    {"ok", "error", "invalid_retention", "agent_not_found", "memory_size_zero",
     "already_assigned"}

\* C36: every call of insert_agent_myth_safe returns True or False, whatever
\* calls of insert_agent_myth_safe and update_retentions_and_reorder run beside
\* it: no call makes more than max_retries attempts, no two transactions ever
\* wait for each other, and a call that has started comes to its return
InsertTerminates ==
    /\ [](\A p \in Procs : call[p].attempt <= max_retries - 1)
    /\ [](\A p, q \in Procs : ~ (WaitsFor(p, q) /\ WaitsFor(q, p)))
    /\ \A p \in ConcProcs :
          (call[p].op = "insert" /\ pc[p] # "returned")
          ~> (pc[p] = "returned" /\ call[p].outcome \in InsertOutcomes)

InsertPreservesOthers ==
    [][\A p \in Procs :
          (pc[p] = "write" /\ pc'[p] = "returned" /\ call'[p].outcome = "ok")
          => LET c == call'[p]
                 old == RowsOf(agent_myths, c.agent_id)
                 new == RowsOf(agent_myths', c.agent_id)
                 gone == {x \in old : ~ \E y \in new : y.myth_id = x.myth_id}
             IN  /\ Cardinality(gone) <= 1
                 /\ {y.myth_id : y \in new}
                       = ({x.myth_id : x \in old} \ {x.myth_id : x \in gone}) \cup {c.myth_id}
                 /\ \A y \in new :
                       y.myth_id # c.myth_id
                       => \E x \in old : x.myth_id = y.myth_id /\ x.retention = y.retention
      ]_vars

\* an insert has returned True with its row at the top of a memory of rows of
\* several retentions, one old row gone and the others one position down
InsertPreservesOthersWitness ==
    \E p \in SeqProcs :
        /\ pc[p] = "returned"
        /\ call[p].op = "insert"
        /\ call[p].outcome = "ok"
        /\ Cardinality(call[p].evicted) = 1
        /\ \E row \in agent_myths : row.myth_id = call[p].myth_id /\ row.position = 0
        /\ \E x, y \in RowsOf(agent_myths, call[p].agent_id) :
              /\ x.myth_id # call[p].myth_id /\ y.myth_id # call[p].myth_id
              /\ x.retention # y.retention

\* C39: from a table whose positions are 0..n-1 in the order of the ranking,
\* insert_agent_myth_safe_with_session followed by the commit returns what
\* insert_agent_myth_safe returns for the same myth, agent and retention, and
\* leaves the table insert_agent_myth_safe leaves
TwoInsertsAgree ==
    [][\A p \in Procs :
          (/\ pc[p] = "idle" /\ pc'[p] = "returned"
           /\ call'[p].op = "insert_with_session"
           /\ \A a \in DOMAIN agents : recalculate_positions(agent_myths, a) = agent_myths)
          => LET c == call'[p]
             IN  /\ (c.outcome = "ok")
                       = SafeInsertReturn(agent_myths, c.myth_id, c.agent_id, c.retention)
                 /\ agent_myths'
                       = SafeInsertResult(agent_myths, c.myth_id, c.agent_id, c.retention)
      ]_vars

\* C40: whatever calls of increment_epoch run at the same time, no commit
\* lowers the stored epoch
EpochNeverDecreases ==
    [][epoch' >= epoch]_vars
====
